---- MODULE Spec2Model ----
(***************************************************************************)
(* A state-machine model of the lab-protocol scheduling core:              *)
(*   backend/models.py     Step, Experiment                                *)
(*   backend/scheduler.py  Scheduler                                       *)
(* Times are integers (ticks of the wall clock), timedelta values are      *)
(* integer differences, and Python's None is the value None below.         *)
(***************************************************************************)
EXTENDS Integers, Sequences, FiniteSets, TLC

\* ------------------------------------------------------------------ bounds
MaxTime == 1        \* last tick of the wall clock, and largest supplied time
MaxDuration == 2    \* largest expected duration of a step
MaxElapsed == 1     \* |elapsed_time| never grows past this
MaxActions == 4         \* most actions that one notification carries
MaxIndexed == 3         \* most ids in the index of one user
MaxNotifications == 2   \* most notifications kept by the notification service

\* ------------------------------------------------------------- vocabulary
None == -1

PENDING == "pending"
READY == "ready"
RUNNING == "running"
PAUSED == "paused"
COMPLETED == "completed"
SKIPPED == "skipped"
ERROR == "error"
StepStatus == {PENDING, READY, RUNNING, PAUSED, COMPLETED, SKIPPED, ERROR}

FIXED_DURATION == "fixed_duration"
TASK == "task"
FIXED_START == "fixed_start"
AUTOMATED_TASK == "automated_task"
StepType == {FIXED_DURATION, TASK, FIXED_START, AUTOMATED_TASK}

NoResource == "None"

LifeIds == {1, 2}       \* the step ids of the life-cycle specification
SchedIds == {1, 2, 3}   \* the step ids of the scheduling specification
ChainIds == {1, 2, 3, 4}   \* the step ids of the dependency-chain specification
ConflictIds == {1, 2, 3}   \* the step ids of the resource-conflict specification
RegIds == {1, 2, 3}        \* the step ids of the registration specification
StatusIds == {1, 2}        \* the step ids of the manual-status specification
\* step_type and resource_needed given to the constructor there
ResourcePlans == {<<TASK, NoResource>>, <<AUTOMATED_TASK, "microscope">>, <<AUTOMATED_TASK, NoResource>>}
LifeTimeArgs == {None, 0, 1}   \* the time arguments of the life-cycle specifications
ExpIds == {1, 2}        \* the experiment ids
SchedTimeArgs == {None, 2}     \* the time arguments of the scheduling specification
\* duration and scheduled_start_time given to the constructor there
StepPlans == {<<1, None>>, <<MaxDuration, 0>>}

\* Python's `a or b` on Optional[datetime]: a datetime is always truthy.
Or(a, b) == IF a # None THEN a ELSE b

Abs(x) == IF x < 0 THEN -x ELSE x

Range(s) == {s[i] : i \in 1..Len(s)}

\* the user names that own experiments and receive notifications
Users == {"alice", "bob"}

\* the threads that serve requests
Threads == {1, 2}

\* a thread that is in no handler: pc is its position, step_id the step of the
\* call, time the time the call works with, i the position of the readiness
\* pass in the registry, deps the dependencies it has yet to look at,
\* earliest its earliest_start_from_deps and elapsed the sum it has computed
Idle == [pc |-> "idle", step_id |-> -1, time |-> -1, i |-> 0, deps |-> {},
         earliest |-> -1, elapsed |-> 0]

\* the step ids of the experiment that the threads work on
ThreadIds == {1, 2}

VARIABLES
    steps,        \* the Step objects constructed so far, indexed by id
    expSteps,     \* Experiment.steps of every experiment: ids in insertion order
    experiments,  \* Scheduler.experiments: ids of the registered experiments, in order
    schedule,     \* Scheduler.schedule: ids of the registered steps, in order
    now,          \* the wall clock read by datetime.now()
    result,       \* what the most recent call reported
    notifications, \* the Notification objects constructed so far, indexed by id
    stored,       \* NotificationService.notifications: ids of its keys, in order
    user_notifications, \* NotificationService.user_notifications: user -> ids
    emitted,      \* socketio: the messages of the most recent call that pushes
    threads       \* the request threads: where each one is in its handler

vars == <<steps, expSteps, experiments, schedule, now, result, notifications, stored, user_notifications, emitted, threads>>

\* notification_service, the NotificationService of the application
notification_service == <<notifications, stored, user_notifications, emitted>>

\* the Notification ids that the calls of the service are given; the last
\* one is never constructed
NotificationIds == 1..(MaxNotifications + 1)

\* ------------------------------------------------------------------- Step
\* Step, the scheduled end of a given start not moved on by the duration
Step_end_at_start(step_type, dependencies, duration, scheduled_start_time, resource_needed) ==
    [ step_type |-> step_type,
      dependencies |-> dependencies,
      duration |-> duration,
      resource_needed |->
          IF resource_needed = NoResource /\ step_type = TASK
          THEN "user_attention" ELSE resource_needed,
      scheduled_start_time |-> scheduled_start_time,
      scheduled_end_time |-> scheduled_start_time,
      actual_start_time |-> None,
      actual_end_time |-> None,
      elapsed_time |-> 0,
      status |-> PENDING,
      earliest_possible_start_time |-> None ]

\* Step.__init__
Step(step_type, dependencies, duration, scheduled_start_time, resource_needed) ==
    [ step_type |-> step_type,
      dependencies |-> dependencies,
      duration |-> duration,
      resource_needed |->
          IF resource_needed = NoResource /\ step_type = TASK
          THEN "user_attention" ELSE resource_needed,
      scheduled_start_time |-> scheduled_start_time,
      scheduled_end_time |->
          IF scheduled_start_time # None
          THEN scheduled_start_time + duration ELSE None,
      actual_start_time |-> None,
      actual_end_time |-> None,
      elapsed_time |-> 0,
      status |-> PENDING,
      earliest_possible_start_time |-> None ]

\* can_start, a Pending step let through
can_start_from_pending(self) == self.status \in {PENDING, READY, PAUSED}

\* Step.start, line 67: the guard
can_start(self) == self.status \in {READY, PAUSED}

\* Step.start, resetting the elapsed time on a restart
Step_start_resetting(self, start_time, clock) ==
    IF ~can_start(self)
    THEN self
    ELSE [self EXCEPT !.actual_start_time = Or(start_time, clock),
                      !.elapsed_time = 0,
                      !.status = RUNNING]

\* Step.start, without the check of the status at line 67
Step_start_unguarded(self, start_time, clock) ==
    [self EXCEPT !.actual_start_time = Or(start_time, clock),
                 !.status = RUNNING]

\* Step.start: self after the call
Step_start(self, start_time, clock) ==
    IF ~can_start(self)
    THEN self
    ELSE [self EXCEPT !.actual_start_time = Or(start_time, clock),
                      !.status = RUNNING]

\* Step.pause, lines 80 and 84: the guards
can_pause(self) ==
    /\ self.step_type \notin {FIXED_DURATION, FIXED_START, AUTOMATED_TASK}
    /\ self.status = RUNNING

\* Step.pause, line 86: `now - None` raises TypeError
pause_raises(self) == can_pause(self) /\ self.actual_start_time = None

\* Step.pause, without the check of the step type
Step_pause_any_type(self, clock) ==
    IF self.status = RUNNING /\ self.actual_start_time # None
    THEN [self EXCEPT !.elapsed_time = @ + (clock - self.actual_start_time),
                      !.status = PAUSED]
    ELSE self

\* Step.pause: self after the call (unchanged when line 86 raises)
Step_pause(self, clock) ==
    IF self.step_type \in {FIXED_DURATION, FIXED_START, AUTOMATED_TASK}
    THEN self
    ELSE IF self.status = RUNNING
         THEN IF self.actual_start_time = None
              THEN self
              ELSE [self EXCEPT !.elapsed_time = @ + (clock - self.actual_start_time),
                                !.status = PAUSED]
         ELSE self

\* can_complete, a step that is Ready taken as one that has run
can_complete_from_ready(self) == self.status \in {READY, RUNNING, PAUSED}

\* Step.complete, line 95: the guard
can_complete(self) == self.status \in {RUNNING, PAUSED}

\* Step.complete, line 102: `actual_end_time - None` raises TypeError
complete_raises(self) == self.status = RUNNING /\ self.actual_start_time = None

\* Step.complete, adding the time since the last start from Paused too
Step_complete_always_adding(self, end_time, clock) ==
    IF ~can_complete(self) \/ self.actual_start_time = None
    THEN self
    ELSE LET actual_end_time == Or(end_time, clock) IN
         [self EXCEPT !.actual_end_time = actual_end_time,
                      !.elapsed_time = @ + (actual_end_time - self.actual_start_time),
                      !.status = COMPLETED]

\* Step.complete: self after the call (line 99 done, when line 102 raises)
Step_complete(self, end_time, clock) ==
    IF ~can_complete(self)
    THEN self
    ELSE LET actual_end_time == Or(end_time, clock) IN
         IF complete_raises(self)
         THEN [self EXCEPT !.actual_end_time = actual_end_time]
         ELSE [self EXCEPT !.actual_end_time = actual_end_time,
                           !.elapsed_time =
                               IF self.status = RUNNING
                               THEN @ + (actual_end_time - self.actual_start_time)
                               ELSE @,
                           !.status = COMPLETED]

\* -------------------------------------------------------------- Scheduler
\* Step.update_status: self after the call
Step_update_status(self, status) == [self EXCEPT !.status = status]

\* Scheduler.get_step: whether the id is a key of self.schedule
get_step(sched, step_id) == \E i \in 1..Len(sched) : sched[i] = step_id

Max(S) == CHOOSE x \in S : \A y \in S : y <= x

Min(S) == CHOOSE x \in S : \A y \in S : x <= y

\* Scheduler._resolve_dependencies: the latest end of the dependencies, or None
resolve_dependencies(st, sched, step) ==
    IF \E d \in step.dependencies :
          \/ ~get_step(sched, d)
          \/ Or(st[d].actual_end_time, st[d].scheduled_end_time) = None
    THEN None
    ELSE IF step.dependencies = {} THEN None
    ELSE Max({Or(st[d].actual_end_time, st[d].scheduled_end_time) :
                 d \in step.dependencies})

\* deps_met, a dependency that is scheduled to end taken as met
deps_met_when_scheduled(st, sched, step) ==
    \A d \in step.dependencies :
        /\ get_step(sched, d)
        /\ st[d].status = COMPLETED \/ st[d].scheduled_end_time # None

\* update_ready_status, lines 123-129: deps_met after the inner loop
deps_met(st, sched, step) ==
    \A d \in step.dependencies : get_step(sched, d) /\ st[d].status = COMPLETED

\* earliest_start_from_deps, taken from the scheduled ends of the dependencies
earliest_start_from_scheduled_ends(st, step) ==
    LET ends == {st[d].scheduled_end_time : d \in step.dependencies} \ {None}
    IN  IF ends = {} THEN None ELSE Max(ends)

\* update_ready_status, lines 124-133: earliest_start_from_deps after the inner loop
earliest_start_from_deps(st, step) ==
    LET ends == {st[d].actual_end_time : d \in step.dependencies} \ {None}
    IN  IF ends = {} THEN None ELSE Max(ends)

\* Scheduler.update_ready_status: the steps after the pass over schedule[i..]
RECURSIVE update_ready_status(_, _, _)
update_ready_status(st, sched, i) ==
    IF i > Len(sched) THEN st
    ELSE LET id == sched[i]
             step == st[id]
         IN  IF step.status = PENDING /\ deps_met(st, sched, step)
             THEN update_ready_status(
                      [st EXCEPT ![id].status = READY,
                                 ![id].earliest_possible_start_time =
                                     Or(earliest_start_from_deps(st, step), @)],
                      sched, i + 1)
             ELSE update_ready_status(st, sched, i + 1)

\* place, the scheduled end not moved on by the duration
place_without_duration(step, scheduled_start_time, earliest_dep_start, base_time) ==
    [step EXCEPT !.scheduled_start_time = scheduled_start_time,
                 !.scheduled_end_time = scheduled_start_time,
                 !.earliest_possible_start_time = Or(earliest_dep_start, base_time)]

\* place, the start taken anew from the floor of the pass
place_anew(step, scheduled_start_time, earliest_dep_start, base_time) ==
    [step EXCEPT !.scheduled_start_time = Or(earliest_dep_start, base_time),
                 !.scheduled_end_time = Or(earliest_dep_start, base_time) + step.duration,
                 !.earliest_possible_start_time = Or(earliest_dep_start, base_time)]

\* calculate_initial_schedule, lines 99-104: a step placed at scheduled_start_time
place(step, scheduled_start_time, earliest_dep_start, base_time) ==
    [step EXCEPT !.scheduled_start_time = scheduled_start_time,
                 !.scheduled_end_time = scheduled_start_time + step.duration,
                 !.earliest_possible_start_time = Or(earliest_dep_start, base_time)]

\* calculate_initial_schedule, lines 75-108: the while loop.  The result holds
\* the steps, the worklist left and the iterations used.
RECURSIVE schedule_loop(_, _, _, _, _, _, _)
schedule_loop(st, sched, steps_to_process, processed_steps, iterations, MAX_ITERATIONS, base_time) ==
    IF steps_to_process = <<>> \/ iterations >= MAX_ITERATIONS
    THEN [st |-> st, steps_to_process |-> steps_to_process, iterations |-> iterations]
    ELSE LET id == Head(steps_to_process)
             rest == Tail(steps_to_process)
             step == st[id]
             earliest_dep_start == resolve_dependencies(st, sched, step)
         IN  IF id \in processed_steps \/ step.status # PENDING
             THEN schedule_loop(st, sched, rest, processed_steps, iterations + 1,
                                MAX_ITERATIONS, base_time)
             ELSE IF step.dependencies = {}
             THEN schedule_loop(
                      [st EXCEPT ![id] = place(step, Or(step.scheduled_start_time, base_time),
                                               earliest_dep_start, base_time)],
                      sched, rest, processed_steps \cup {id}, iterations + 1,
                      MAX_ITERATIONS, base_time)
             ELSE IF earliest_dep_start # None
             THEN schedule_loop(
                      [st EXCEPT ![id] = place(step, Or(step.scheduled_start_time,
                                                        earliest_dep_start),
                                               earliest_dep_start, base_time)],
                      sched, rest, processed_steps \cup {id}, iterations + 1,
                      MAX_ITERATIONS, base_time)
             ELSE schedule_loop(st, sched, Append(rest, id), processed_steps,
                                iterations + 1, MAX_ITERATIONS, base_time)

\* calculate_initial_schedule, lines 67-108: the scheduling pass before the
\* readiness propagation
schedule_pass(st, sched, base_time) ==
    schedule_loop(st, sched, sched, {}, 0, Len(sched) * 2, base_time)

\* ---------------------------------------------------------------- actions
\* What a call reports: nothing; the "Warning: Cannot start/pause/complete"
\* line of a rejected transition; the "Warning: ... already added/exists/
\* conflict" line of a registration; the "Warning: Max scheduling iterations
\* reached" line; the "Error: ... unknown step ID" line of a handler; or an
\* exception.
OK == "ok"
REJECTED == "rejected"
CONFLICT == "conflict"
UNSCHEDULABLE == "unschedulable"
NOT_FOUND == "not_found"
RAISED == "raised"

Init ==
    /\ steps = <<>>
    /\ expSteps = [e \in ExpIds |-> <<>>]
    /\ experiments = <<>>
    /\ schedule = <<>>
    /\ now = 0
    /\ result = OK
    /\ notifications = <<>>
    /\ stored = <<>>
    /\ user_notifications = [user \in Users |-> <<>>]
    /\ emitted = <<>>
    /\ threads = [t \in Threads |-> Idle]

\* datetime.now() moves on
Tick ==
    /\ now < MaxTime
    /\ now' = now + 1
    /\ UNCHANGED <<steps, expSteps, experiments, schedule, result, notification_service, threads>>

\* create_experiment, the body of its loop: a new Step object, its id fresh,
\* added to the experiment
create_step(ids, e, step_type, dependencies, duration, scheduled_start_time, resource_needed) ==
    /\ (Len(steps) + 1) \in ids
    /\ (Len(steps) + 1) \notin dependencies
    /\ steps' = Append(steps, Step(step_type, dependencies, duration,
                                   scheduled_start_time, resource_needed))
    /\ expSteps' = [expSteps EXCEPT ![e] = Append(@, Len(steps) + 1)]
    /\ result' = OK
    /\ UNCHANGED <<experiments, schedule, now, notification_service, threads>>

\* Experiment.add_step of a Step object that exists
add_step(e, s) ==
    /\ s \in 1..Len(steps)
    /\ IF s \in Range(expSteps[e])
       THEN /\ result' = CONFLICT
            /\ UNCHANGED expSteps
       ELSE /\ expSteps' = [expSteps EXCEPT ![e] = Append(@, s)]
            /\ result' = OK
    /\ UNCHANGED <<steps, experiments, schedule, now, notification_service, threads>>

\* Scheduler.add_experiment, lines 23-28: the registry after the loop over
\* experiment.steps[i..]
RECURSIVE register_steps(_, _, _)
register_steps(sched, ids, i) ==
    IF i > Len(ids) THEN sched
    ELSE IF get_step(sched, ids[i])
         THEN register_steps(sched, ids, i + 1)
         ELSE register_steps(Append(sched, ids[i]), ids, i + 1)

\* add_experiment, registering every step of every experiment it is given
add_experiment_overwriting(e) ==
    /\ experiments' = IF e \in Range(experiments) THEN experiments
                      ELSE Append(experiments, e)
    /\ schedule' = schedule \o expSteps[e]
    /\ result' = IF e \in Range(experiments) \/ \E s \in Range(expSteps[e]) : get_step(schedule, s)
                 THEN CONFLICT ELSE OK
    /\ UNCHANGED <<steps, expSteps, now, notification_service, threads>>

\* Scheduler.add_experiment
add_experiment(e) ==
    /\ IF e \in Range(experiments)
       THEN /\ result' = CONFLICT
            /\ UNCHANGED <<experiments, schedule, threads>>
       ELSE /\ experiments' = Append(experiments, e)
            /\ schedule' = register_steps(schedule, expSteps[e], 1)
            /\ result' = IF \E s \in Range(expSteps[e]) : get_step(schedule, s)
                         THEN CONFLICT ELSE OK
    /\ UNCHANGED <<steps, expSteps, now, notification_service, threads>>

\* calculate_initial_schedule, returning when the iterations are exhausted
calculate_initial_schedule_returning_early(start_time) ==
    /\ LET base_time == Or(start_time, now)
           placed == schedule_pass(steps, schedule, base_time)
       IN  IF /\ placed.iterations >= Len(schedule) * 2
              /\ placed.steps_to_process # <<>>
           THEN steps' = placed.st /\ result' = UNSCHEDULABLE
           ELSE steps' = update_ready_status(placed.st, schedule, 1) /\ result' = OK
    /\ UNCHANGED <<expSteps, experiments, schedule, now, notification_service, threads>>

\* Scheduler.calculate_initial_schedule
calculate_initial_schedule(start_time) ==
    /\ LET base_time == Or(start_time, now)
           placed == schedule_pass(steps, schedule, base_time)
       IN  /\ steps' = update_ready_status(placed.st, schedule, 1)
           /\ result' = IF /\ placed.iterations >= Len(schedule) * 2
                           /\ placed.steps_to_process # <<>>
                        THEN UNSCHEDULABLE ELSE OK
    /\ UNCHANGED <<expSteps, experiments, schedule, now, notification_service, threads>>

\* update_experiment of main.py with n steps in the request: the steps of the
\* experiment are replaced by Step objects constructed from the request, and
\* the schedule is calculated from the clock
update_experiment(ids, e, n) ==
    /\ e \in Range(experiments)
    /\ n = 0 \/ (Len(steps) + n) \in ids
    /\ LET created == steps \o [k \in 1..n |->
                                   Step(FIXED_DURATION, {}, 1, None, NoResource)]
           placed == schedule_pass(created, schedule, now)
       IN  /\ steps' = update_ready_status(placed.st, schedule, 1)
           /\ result' = IF /\ placed.iterations >= Len(schedule) * 2
                           /\ placed.steps_to_process # <<>>
                        THEN UNSCHEDULABLE ELSE OK
    /\ expSteps' = [expSteps EXCEPT ![e] = [k \in 1..n |-> Len(steps) + k]]
    /\ UNCHANGED <<experiments, schedule, now, notification_service, threads>>

\* Scheduler.update_ready_status, called on its own
update_ready_status_call ==
    /\ steps' = update_ready_status(steps, schedule, 1)
    /\ result' = OK
    /\ UNCHANGED <<expSteps, experiments, schedule, now, notification_service, threads>>

\* handle_step_start, without the readiness propagation
handle_step_start_not_propagating(step_id, start_time) ==
    /\ UNCHANGED <<expSteps, experiments, schedule, now, notification_service, threads>>
    /\ IF get_step(schedule, step_id)
       THEN LET actual_start == Or(start_time, now)
                started == Step_start(steps[step_id], actual_start, now)
            IN  /\ result' = IF can_start(steps[step_id]) THEN OK ELSE REJECTED
                /\ steps' = [steps EXCEPT ![step_id] = started]
       ELSE /\ result' = NOT_FOUND
            /\ UNCHANGED steps

\* Scheduler.handle_step_start
handle_step_start(step_id, start_time) ==
    /\ UNCHANGED <<expSteps, experiments, schedule, now, notification_service, threads>>
    /\ IF get_step(schedule, step_id)
       THEN LET actual_start == Or(start_time, now)
                started == Step_start(steps[step_id], actual_start, now)
            IN  /\ result' = IF can_start(steps[step_id]) THEN OK ELSE REJECTED
                /\ steps' = update_ready_status(
                                [steps EXCEPT ![step_id] = started], schedule, 1)
       ELSE /\ result' = NOT_FOUND
            /\ UNCHANGED steps

\* handle_step_pause, followed by the readiness propagation of its siblings
handle_step_pause_propagating(step_id) ==
    /\ UNCHANGED <<expSteps, experiments, schedule, now, notification_service, threads>>
    /\ IF get_step(schedule, step_id)
       THEN LET paused == Step_pause(steps[step_id], now)
            IN  /\ Abs(paused.elapsed_time) <= MaxElapsed
                /\ result' = IF pause_raises(steps[step_id]) THEN RAISED
                             ELSE IF can_pause(steps[step_id]) THEN OK ELSE REJECTED
                /\ steps' = update_ready_status(
                                [steps EXCEPT ![step_id] = paused], schedule, 1)
       ELSE /\ result' = NOT_FOUND
            /\ UNCHANGED steps

\* Scheduler.handle_step_pause.  A pause that would take |elapsed_time| past
\* MaxElapsed is left out: pause and resume could repeat without end.
handle_step_pause(step_id) ==
    /\ UNCHANGED <<expSteps, experiments, schedule, now, notification_service, threads>>
    /\ IF get_step(schedule, step_id)
       THEN LET paused == Step_pause(steps[step_id], now)
            IN  /\ Abs(paused.elapsed_time) <= MaxElapsed
                /\ result' = IF pause_raises(steps[step_id]) THEN RAISED
                             ELSE IF can_pause(steps[step_id]) THEN OK ELSE REJECTED
                /\ steps' = [steps EXCEPT ![step_id] = paused]
       ELSE /\ result' = NOT_FOUND
            /\ UNCHANGED steps

\* handle_step_complete, the readiness propagation run for an unknown id too
handle_step_complete_propagating(step_id, end_time) ==
    /\ UNCHANGED <<expSteps, experiments, schedule, now, notification_service, threads>>
    /\ IF get_step(schedule, step_id)
       THEN LET actual_end == Or(end_time, now)
                completed == Step_complete(steps[step_id], actual_end, now)
            IN  /\ result' = IF complete_raises(steps[step_id]) THEN RAISED
                             ELSE IF can_complete(steps[step_id]) THEN OK ELSE REJECTED
                /\ steps' = IF complete_raises(steps[step_id])
                            THEN [steps EXCEPT ![step_id] = completed]
                            ELSE update_ready_status(
                                     [steps EXCEPT ![step_id] = completed], schedule, 1)
       ELSE /\ result' = NOT_FOUND
            /\ steps' = update_ready_status(steps, schedule, 1)

\* Scheduler.handle_step_complete
handle_step_complete(step_id, end_time) ==
    /\ UNCHANGED <<expSteps, experiments, schedule, now, notification_service, threads>>
    /\ IF get_step(schedule, step_id)
       THEN LET actual_end == Or(end_time, now)
                completed == Step_complete(steps[step_id], actual_end, now)
            IN  /\ result' = IF complete_raises(steps[step_id]) THEN RAISED
                             ELSE IF can_complete(steps[step_id]) THEN OK ELSE REJECTED
                /\ steps' = IF complete_raises(steps[step_id])
                            THEN [steps EXCEPT ![step_id] = completed]
                            ELSE update_ready_status(
                                     [steps EXCEPT ![step_id] = completed], schedule, 1)
       ELSE /\ result' = NOT_FOUND
            /\ UNCHANGED steps

\* start_step of main.py: the request handler calls the scheduler and answers
\* with the experiment; it calls nothing of the notification service
start_step(step_id) == handle_step_start(step_id, None)

\* pause_step of main.py
pause_step(step_id) == handle_step_pause(step_id)

\* complete_step, without the readiness propagation of handle_step_complete
complete_step_not_propagating(step_id) ==
    /\ UNCHANGED <<expSteps, experiments, schedule, now, notification_service, threads>>
    /\ IF get_step(schedule, step_id)
       THEN /\ result' = IF complete_raises(steps[step_id]) THEN RAISED
                         ELSE IF can_complete(steps[step_id]) THEN OK ELSE REJECTED
            /\ steps' = [steps EXCEPT ![step_id] = Step_complete(@, now, now)]
       ELSE /\ result' = NOT_FOUND
            /\ UNCHANGED steps

\* complete_step of main.py: as start_step
complete_step(step_id) == handle_step_complete(step_id, None)

\* Step.update_status, called on a Step object that exists
update_status(step_id, status) ==
    /\ step_id \in 1..Len(steps)
    /\ steps' = [steps EXCEPT ![step_id] = Step_update_status(@, status)]
    /\ result' = OK
    /\ UNCHANGED <<expSteps, experiments, schedule, now, notification_service, threads>>

\* ------------------------------------------------------ conflict detection
RESOURCE_CONFLICT == "NotificationType.RESOURCE_CONFLICT"

\* Python's truth value of an Optional[str]
Truthy(token) == token \notin {NoResource, ""}

\* Scheduler.check_for_conflicts: the list it returns, as a set of pairs
check_for_conflicts == {}

\* Scheduler.check_for_conflicts, called
check_for_conflicts_call ==
    /\ result' = OK
    /\ UNCHANGED <<steps, expSteps, experiments, schedule, now, notification_service, threads>>

\* NotificationType, the types besides RESOURCE_CONFLICT
STEP_READY == "NotificationType.STEP_READY"
STEP_COMPLETED == "NotificationType.STEP_COMPLETED"
STEP_PAUSED == "NotificationType.STEP_PAUSED"
STEP_TIMEOUT == "NotificationType.STEP_TIMEOUT"
USER_ATTENTION_REQUIRED == "NotificationType.USER_ATTENTION_REQUIRED"
GENERAL_INFO == "NotificationType.GENERAL_INFO"
NotificationType_ERROR == "NotificationType.ERROR"
CUSTOM == "NotificationType.CUSTOM"

\* NotificationPriority
LOW == "NotificationPriority.LOW"
MEDIUM == "NotificationPriority.MEDIUM"
HIGH == "NotificationPriority.HIGH"
CRITICAL == "NotificationPriority.CRITICAL"
NotificationPriority == {LOW, MEDIUM, HIGH, CRITICAL}

\* NotificationType: its members
NotificationType ==
    {STEP_READY, STEP_COMPLETED, STEP_PAUSED, STEP_TIMEOUT, RESOURCE_CONFLICT,
     USER_ATTENTION_REQUIRED, GENERAL_INFO, NotificationType_ERROR, CUSTOM}

\* ActionType: the members that the handlers use
LINK == "ActionType.LINK"
BUTTON == "ActionType.BUTTON"
ActionType == {LINK, BUTTON}

\* member.value of a member of one of the three enumerations
value(member) ==
    CASE member = STEP_READY -> "step_ready"
      [] member = STEP_COMPLETED -> "step_completed"
      [] member = STEP_PAUSED -> "step_paused"
      [] member = STEP_TIMEOUT -> "step_timeout"
      [] member = RESOURCE_CONFLICT -> "resource_conflict"
      [] member = USER_ATTENTION_REQUIRED -> "user_attention_required"
      [] member = GENERAL_INFO -> "general_info"
      [] member = NotificationType_ERROR -> "error"
      [] member = CUSTOM -> "custom"
      [] member = LOW -> "low"
      [] member = MEDIUM -> "medium"
      [] member = HIGH -> "high"
      [] member = CRITICAL -> "critical"
      [] member = LINK -> "link"
      [] member = BUTTON -> "button"

\* Enum(value): the member of the enumeration that has the value
member_of(Enum, v) == CHOOSE member \in Enum : value(member) = v

\* Notification.__init__; resource and conflicting_step_id are the entries of
\* metadata that the service reads
Notification(notification_type, priority, target_users, experiment_id, step_id, resource, conflicting_step_id) ==
    [ type |-> notification_type,
      priority |-> priority,
      target_users |-> target_users,
      experiment_id |-> experiment_id,
      step_id |-> step_id,
      resource |-> resource,
      conflicting_step_id |-> conflicting_step_id,
      actions |-> <<>>,
      is_read |-> FALSE,
      is_dismissed |-> FALSE ]

\* NotificationAction.__init__
NotificationAction(action_id, action_type, label, data) ==
    [id |-> action_id, type |-> action_type, label |-> label, data |-> data]

\* the data of an action that names a step
step_data(step_id) == [step_id |-> step_id]

\* experiment.owner: the user who created the experiment
owner(experiment) == IF experiment = 1 THEN "alice" ELSE "bob"

\* step_ready_notification: the Notification the factory constructs
step_ready_notification(step, experiment) ==
    Notification(STEP_READY, MEDIUM, <<owner(experiment)>>, experiment, step, NoResource, None)

\* resource_conflict_notification: the Notification the factory constructs
resource_conflict_notification(step1, step2, experiment, resource) ==
    Notification(RESOURCE_CONFLICT, HIGH, <<owner(experiment)>>, experiment, step1, resource, step2)

\* _handle_step_ready
handle_step_ready(notification) ==
    IF notification.step_id # None
    THEN [notification EXCEPT !.actions =
             Append(@, NotificationAction("start_step", BUTTON, "Start Step",
                                          step_data(notification.step_id)))]
    ELSE notification

\* _handle_step_paused
handle_step_paused(notification) ==
    IF notification.step_id # None
    THEN [notification EXCEPT !.actions =
             Append(@, NotificationAction("resume_step", BUTTON, "Resume Step",
                                          step_data(notification.step_id)))]
    ELSE notification

\* _handle_step_timeout
handle_step_timeout(notification) ==
    IF notification.step_id # None
    THEN [notification EXCEPT !.actions =
             Append(@, NotificationAction("complete_step", BUTTON, "Mark as Complete",
                                          step_data(notification.step_id)))]
    ELSE notification

\* _handle_resource_conflict
handle_resource_conflict(notification) ==
    IF notification.step_id # None /\ notification.conflicting_step_id # None
    THEN [notification EXCEPT !.actions = @ \o
             << NotificationAction("pause_step", BUTTON, "Pause Current Step",
                                   step_data(notification.step_id)),
                NotificationAction("pause_conflicting_step", BUTTON,
                                   "Pause Conflicting Step",
                                   step_data(notification.conflicting_step_id)) >>]
    ELSE notification

\* _handle_user_attention_required
handle_user_attention_required(notification) ==
    IF notification.step_id # None
    THEN [notification EXCEPT !.actions =
             Append(@, NotificationAction("view_step", LINK, "View Step",
                        [link |-> <<notification.experiment_id, notification.step_id>>]))]
    ELSE notification

\* _handle_error
handle_error(notification) == [notification EXCEPT !.priority = HIGH]

\* create_notification, lines 168-170: the handler registered for the type
notification_handlers(notification) ==
    CASE notification.type = STEP_READY -> handle_step_ready(notification)
      [] notification.type = STEP_PAUSED -> handle_step_paused(notification)
      [] notification.type = STEP_TIMEOUT -> handle_step_timeout(notification)
      [] notification.type = RESOURCE_CONFLICT -> handle_resource_conflict(notification)
      [] notification.type = USER_ATTENTION_REQUIRED ->
             handle_user_attention_required(notification)
      [] notification.type = NotificationType_ERROR -> handle_error(notification)
      [] OTHER -> notification

\* NotificationAction.to_dict
NotificationAction_to_dict(self) ==
    [id |-> self.id, type |-> value(self.type), label |-> self.label, data |-> self.data]

\* Notification.to_dict of the Notification whose id is notification_id
to_dict(self, notification_id) ==
    [ id |-> notification_id,
      type |-> value(self.type),
      priority |-> value(self.priority),
      target_users |-> self.target_users,
      experiment_id |-> self.experiment_id,
      step_id |-> self.step_id,
      metadata |-> [resource |-> self.resource,
                    conflicting_step_id |-> self.conflicting_step_id],
      actions |-> [i \in 1..Len(self.actions) |-> NotificationAction_to_dict(self.actions[i])],
      is_read |-> self.is_read,
      is_dismissed |-> self.is_dismissed ]

\* Notification.from_dict that leaves out the loop over data["actions"]
from_dict_without_actions(data) ==
    LET notification ==
            Notification(member_of(NotificationType, data.type),
                         member_of(NotificationPriority, data.priority),
                         data.target_users, data.experiment_id, data.step_id,
                         data.metadata.resource, data.metadata.conflicting_step_id)
    IN  [ id |-> data.id,
          notification |->
              [notification EXCEPT !.is_read = data.is_read,
                                   !.is_dismissed = data.is_dismissed] ]

\* Notification.from_dict: the Notification it returns and the id it gives it
from_dict(data) ==
    LET notification ==
            Notification(member_of(NotificationType, data.type),
                         member_of(NotificationPriority, data.priority),
                         data.target_users, data.experiment_id, data.step_id,
                         data.metadata.resource, data.metadata.conflicting_step_id)
    IN  [ id |-> data.id,
          notification |->
              [notification EXCEPT
                  !.is_read = data.is_read,
                  !.is_dismissed = data.is_dismissed,
                  !.actions = @ \o
                      [i \in 1..Len(data.actions) |->
                          NotificationAction(data.actions[i].id,
                                             member_of(ActionType, data.actions[i].type),
                                             data.actions[i].label,
                                             data.actions[i].data)]] ]

\* create_notification, lines 173-179: the messages that the loop over
\* target_users emits, each to the room of one user
pushes(notification, notification_id) ==
    [i \in 1..Len(notification.target_users) |->
        [room |-> notification.target_users[i],
         data |-> to_dict(notification, notification_id)]]

\* the notification service as one value, at the beginning of a call
Service ==
    [ notifications |-> notifications,
      stored |-> stored,
      user_notifications |-> user_notifications,
      emitted |-> <<>> ]

\* create_notification, lines 163-166: the index after the loop over
\* target_users[i..]
RECURSIVE associate(_, _, _, _)
associate(index, target_users, notification_id, i) ==
    IF i > Len(target_users) THEN index
    ELSE associate([index EXCEPT ![target_users[i]] = Append(@, notification_id)],
                   target_users, notification_id, i + 1)

\* create_notification that runs no handler
create_notification_unhandled(self, notification) ==
    [ notifications |-> self.notifications,
      stored |-> IF notification \in Range(self.stored)
                 THEN self.stored ELSE Append(self.stored, notification),
      user_notifications |->
          associate(self.user_notifications,
                    self.notifications[notification].target_users, notification, 1),
      emitted |-> self.emitted \o pushes(self.notifications[notification], notification) ]

\* NotificationService.create_notification: the service after the call;
\* notification is the id of a constructed Notification
create_notification(self, notification) ==
    [ notifications |->
          [self.notifications EXCEPT ![notification] = notification_handlers(@)],
      stored |-> IF notification \in Range(self.stored)
                 THEN self.stored ELSE Append(self.stored, notification),
      user_notifications |->
          associate(self.user_notifications,
                    self.notifications[notification].target_users, notification, 1),
      emitted |-> self.emitted \o
          pushes(notification_handlers(self.notifications[notification]), notification) ]

\* a Notification is constructed and handed to create_notification
notify(self, notification) ==
    LET constructed == [self EXCEPT !.notifications = Append(@, notification)]
    IN  create_notification(constructed, Len(constructed.notifications))

\* check_resource_conflicts, lines 680-686: the indexes of the registered
\* experiments that hold one of the two steps
holders(step, conflicting_step) ==
    {i \in 1..Len(experiments) :
        \/ step \in Range(expSteps[experiments[i]])
        \/ conflicting_step \in Range(expSteps[experiments[i]])}

\* check_resource_conflicts, lines 670-686: the service after the loop over
\* schedule[i..]; running_resources maps a resource to the first Running step
\* found holding it
RECURSIVE conflict_scan(_, _, _)
conflict_scan(store, running_resources, i) ==
    IF i > Len(schedule) THEN store
    ELSE LET step == schedule[i]
             resource == steps[step].resource_needed
         IN  IF steps[step].status = RUNNING /\ Truthy(resource)
             THEN IF resource \in DOMAIN running_resources
                  THEN LET conflicting_step == running_resources[resource]
                           found == holders(step, conflicting_step)
                       IN  IF found = {}
                           THEN conflict_scan(store, running_resources, i + 1)
                           ELSE conflict_scan(
                                    notify(store,
                                        resource_conflict_notification(
                                            step, conflicting_step,
                                            experiments[Min(found)], resource)),
                                    running_resources, i + 1)
                  ELSE conflict_scan(store,
                                     [r \in DOMAIN running_resources \cup {resource} |->
                                         IF r = resource THEN step ELSE running_resources[r]],
                                     i + 1)
             ELSE conflict_scan(store, running_resources, i + 1)

\* check_resource_conflicts, pausing the later holder of a contended resource
check_resource_conflicts_pausing ==
    /\ LET after == conflict_scan(Service, <<>>, 1)
       IN  /\ notifications' = after.notifications
           /\ stored' = after.stored
           /\ user_notifications' = after.user_notifications
           /\ emitted' = after.emitted
    /\ Len(notifications') <= MaxNotifications
    /\ steps' = [u \in DOMAIN steps |->
                    IF \E i \in (Len(notifications) + 1)..Len(notifications') :
                           notifications'[i].step_id = u
                    THEN [steps[u] EXCEPT !.status = PAUSED] ELSE steps[u]]
    /\ result' = OK
    /\ UNCHANGED <<expSteps, experiments, schedule, now, threads>>

\* check_resource_conflicts.  A pass that would take the store past
\* MaxNotifications is left out.
check_resource_conflicts ==
    /\ LET after == conflict_scan(Service, <<>>, 1)
       IN  /\ notifications' = after.notifications
           /\ stored' = after.stored
           /\ user_notifications' = after.user_notifications
           /\ emitted' = after.emitted
    /\ Len(notifications') <= MaxNotifications
    /\ result' = OK
    /\ UNCHANGED <<steps, expSteps, experiments, schedule, now, threads>>

\* ---------------------------------------------------- notification service
\* a Notification is constructed
construct_notification(notification) ==
    /\ Len(notifications) < MaxNotifications
    /\ notifications' = Append(notifications, notification)
    /\ result' = OK
    /\ UNCHANGED <<steps, expSteps, experiments, schedule, now, stored, user_notifications, emitted, threads>>

\* create_notification that pushes before it stores and indexes
create_notification_pushing_first(notification, emit_raises) ==
    /\ notification \in 1..Len(notifications)
    /\ LET after == create_notification(Service, notification)
           raised == emit_raises /\ notifications[notification].target_users # <<>>
       IN  /\ Len(after.notifications[notification].actions) <= MaxActions
           /\ \A user \in Users : Len(after.user_notifications[user]) <= MaxIndexed
           /\ notifications' = IF raised THEN notifications ELSE after.notifications
           /\ stored' = IF raised THEN stored ELSE after.stored
           /\ user_notifications' =
                  IF raised THEN user_notifications ELSE after.user_notifications
           /\ emitted' = IF raised THEN <<>> ELSE after.emitted
           /\ result' = IF raised THEN RAISED ELSE OK
    /\ UNCHANGED <<steps, expSteps, experiments, schedule, now, threads>>

\* NotificationService.create_notification, called with a constructed
\* Notification; emit_raises says whether socketio.emit raises at the first
\* push, so that no message goes out.  A call that would take the actions of the notification past
\* MaxActions or an index past MaxIndexed is left out.
create_notification_call(notification, emit_raises) ==
    /\ notification \in 1..Len(notifications)
    /\ LET after == create_notification(Service, notification)
           raised == emit_raises /\ notifications[notification].target_users # <<>>
       IN  /\ Len(after.notifications[notification].actions) <= MaxActions
           /\ \A user \in Users : Len(after.user_notifications[user]) <= MaxIndexed
           /\ notifications' = after.notifications
           /\ stored' = after.stored
           /\ user_notifications' = after.user_notifications
           /\ emitted' = IF raised THEN <<>> ELSE after.emitted
           /\ result' = IF raised THEN RAISED ELSE OK
    /\ UNCHANGED <<steps, expSteps, experiments, schedule, now, threads>>

\* get_user_notifications, line 195: the ids of listed, newest first; the
\* notifications are constructed in the order of their ids
RECURSIVE newest_first(_, _)
newest_first(listed, notification_id) ==
    IF notification_id = 0 THEN <<>>
    ELSE SelectSeq(listed, LAMBDA nid : nid = notification_id)
             \o newest_first(listed, notification_id - 1)

\* NotificationService.get_user_notifications: the ids of the list it returns
get_user_notifications(username, unread_only) ==
    newest_first(
        SelectSeq(user_notifications[username],
                  LAMBDA nid : /\ nid \in Range(stored)
                               /\ ~unread_only \/ ~notifications[nid].is_read),
        Len(notifications))

\* NotificationService.get_user_notifications, called
get_user_notifications_call(username, unread_only) ==
    /\ result' = OK
    /\ UNCHANGED <<steps, expSteps, experiments, schedule, now, notification_service, threads>>

\* mark_as_read that marks every notification
mark_as_read_all(notification_id) ==
    /\ notifications' = [i \in DOMAIN notifications |->
                            [notifications[i] EXCEPT !.is_read = TRUE]]
    /\ result' = OK
    /\ UNCHANGED <<steps, expSteps, experiments, schedule, now, stored, user_notifications, emitted, threads>>

\* NotificationService.mark_as_read
mark_as_read(notification_id) ==
    /\ IF notification_id \in Range(stored)
       THEN /\ notifications' = [notifications EXCEPT ![notification_id].is_read = TRUE]
            /\ result' = OK
       ELSE /\ result' = NOT_FOUND
            /\ UNCHANGED notifications
    /\ UNCHANGED <<steps, expSteps, experiments, schedule, now, stored, user_notifications, emitted, threads>>

\* NotificationService.mark_as_dismissed
mark_as_dismissed(notification_id) ==
    /\ IF notification_id \in Range(stored)
       THEN /\ notifications' = [notifications EXCEPT ![notification_id].is_dismissed = TRUE]
            /\ result' = OK
       ELSE /\ result' = NOT_FOUND
            /\ UNCHANGED notifications
    /\ UNCHANGED <<steps, expSteps, experiments, schedule, now, stored, user_notifications, emitted, threads>>

\* list.remove: ids without the first occurrence of notification_id
remove(ids, notification_id) ==
    LET first == Min({i \in 1..Len(ids) : ids[i] = notification_id})
    IN  SubSeq(ids, 1, first - 1) \o SubSeq(ids, first + 1, Len(ids))

\* delete_notification, lines 218-220: the index after the loop over
\* target_users[i..]
RECURSIVE dissociate(_, _, _, _)
dissociate(index, target_users, notification_id, i) ==
    IF i > Len(target_users) THEN index
    ELSE LET user == target_users[i]
         IN  dissociate(
                 IF notification_id \in Range(index[user])
                 THEN [index EXCEPT ![user] = remove(@, notification_id)]
                 ELSE index,
                 target_users, notification_id, i + 1)

\* NotificationService.delete_notification
delete_notification(notification_id) ==
    /\ IF notification_id \in Range(stored)
       THEN /\ user_notifications' =
                   dissociate(user_notifications,
                              notifications[notification_id].target_users,
                              notification_id, 1)
            /\ stored' = SelectSeq(stored, LAMBDA nid : nid # notification_id)
            /\ result' = OK
       ELSE /\ result' = NOT_FOUND
            /\ UNCHANGED <<stored, user_notifications>>
    /\ UNCHANGED <<steps, expSteps, experiments, schedule, now, notifications, emitted, threads>>

\* --------------------------------------------------------- request threads
\* The handlers of the scheduler as the threads of the server run them: one
\* statement that reads or writes the attributes of a Step at a time.  No
\* handler takes a lock.

\* a thread at the beginning of update_ready_status
at_pass == [Idle EXCEPT !.pc = "ready_step", !.i = 1]

\* the step that the call of the thread is about
self_of(t) == steps[threads[t].step_id]

\* Scheduler.handle_step_start, lines 163-165: get_step and the time
call_handle_step_start(t, step_id, start_time) ==
    /\ threads[t].pc = "idle"
    /\ get_step(schedule, step_id)
    /\ threads' = [threads EXCEPT ![t] =
           [Idle EXCEPT !.pc = "start_guard", !.step_id = step_id,
                        !.time = Or(start_time, now)]]
    /\ UNCHANGED <<steps, expSteps, experiments, schedule, now, result, notification_service>>

\* Scheduler.handle_step_pause, lines 177-179: get_step
call_handle_step_pause(t, step_id) ==
    /\ threads[t].pc = "idle"
    /\ get_step(schedule, step_id)
    /\ threads' = [threads EXCEPT ![t] =
           [Idle EXCEPT !.pc = "pause_guard", !.step_id = step_id]]
    /\ UNCHANGED <<steps, expSteps, experiments, schedule, now, result, notification_service>>

\* Scheduler.handle_step_complete, lines 188-190: get_step and the time
call_handle_step_complete(t, step_id, end_time) ==
    /\ threads[t].pc = "idle"
    /\ get_step(schedule, step_id)
    /\ threads' = [threads EXCEPT ![t] =
           [Idle EXCEPT !.pc = "complete_guard", !.step_id = step_id,
                        !.time = Or(end_time, now)]]
    /\ UNCHANGED <<steps, expSteps, experiments, schedule, now, result, notification_service>>

\* Scheduler.update_ready_status, called by itself
call_update_ready_status(t) ==
    /\ threads[t].pc = "idle"
    /\ threads' = [threads EXCEPT ![t] = at_pass]
    /\ UNCHANGED <<steps, expSteps, experiments, schedule, now, result, notification_service>>

\* Step.start, line 67: the guard
start_guard(t) ==
    /\ threads[t].pc = "start_guard"
    /\ threads' = [threads EXCEPT ![t] =
           IF can_start(self_of(t)) THEN [@ EXCEPT !.pc = "start_time"] ELSE at_pass]
    /\ UNCHANGED <<steps, expSteps, experiments, schedule, now, result, notification_service>>

\* Step.start, line 72: self.actual_start_time = ...
start_time(t) ==
    /\ threads[t].pc = "start_time"
    /\ steps' = [steps EXCEPT ![threads[t].step_id].actual_start_time = threads[t].time]
    /\ threads' = [threads EXCEPT ![t].pc = "start_status", ![t].time = None]
    /\ UNCHANGED <<expSteps, experiments, schedule, now, result, notification_service>>

\* Step.start, line 73: self.status = RUNNING; the handler goes on to the pass
start_status(t) ==
    /\ threads[t].pc = "start_status"
    /\ steps' = [steps EXCEPT ![threads[t].step_id].status = RUNNING]
    /\ threads' = [threads EXCEPT ![t] = at_pass]
    /\ UNCHANGED <<expSteps, experiments, schedule, now, result, notification_service>>

\* Step.pause, lines 80 and 84: the guards
pause_guard(t) ==
    /\ threads[t].pc = "pause_guard"
    /\ threads' = [threads EXCEPT ![t] =
           IF can_pause(self_of(t)) THEN [@ EXCEPT !.pc = "pause_now"] ELSE Idle]
    /\ UNCHANGED <<steps, expSteps, experiments, schedule, now, result, notification_service>>

\* Step.pause, line 85: now = datetime.now()
pause_now(t) ==
    /\ threads[t].pc = "pause_now"
    /\ threads' = [threads EXCEPT ![t].pc = "pause_read", ![t].time = now]
    /\ UNCHANGED <<steps, expSteps, experiments, schedule, now, result, notification_service>>

\* Step.pause, line 86: the right-hand side of +=
pause_read(t) ==
    /\ threads[t].pc = "pause_read"
    /\ threads' = [threads EXCEPT
           ![t].pc = "pause_write",
           ![t].time = None,
           ![t].elapsed = self_of(t).elapsed_time
                              + (threads[t].time - self_of(t).actual_start_time)]
    /\ UNCHANGED <<steps, expSteps, experiments, schedule, now, result, notification_service>>

\* Step.pause, line 86: the assignment of +=
pause_write(t) ==
    /\ threads[t].pc = "pause_write"
    /\ steps' = [steps EXCEPT ![threads[t].step_id].elapsed_time = threads[t].elapsed]
    /\ threads' = [threads EXCEPT ![t].pc = "pause_status", ![t].elapsed = 0]
    /\ UNCHANGED <<expSteps, experiments, schedule, now, result, notification_service>>

\* Step.pause, line 87: self.status = PAUSED; handle_step_pause returns
pause_status(t) ==
    /\ threads[t].pc = "pause_status"
    /\ steps' = [steps EXCEPT ![threads[t].step_id].status = PAUSED]
    /\ threads' = [threads EXCEPT ![t] = Idle]
    /\ UNCHANGED <<expSteps, experiments, schedule, now, result, notification_service>>

\* Step.complete, line 95, setting the status as soon as the guard has passed
complete_guard_setting_status(t) ==
    /\ threads[t].pc = "complete_guard"
    /\ threads' = [threads EXCEPT ![t] =
           IF can_complete(self_of(t)) THEN [@ EXCEPT !.pc = "complete_end"] ELSE at_pass]
    /\ steps' = IF can_complete(self_of(t))
                THEN [steps EXCEPT ![threads[t].step_id].status = COMPLETED]
                ELSE steps
    /\ UNCHANGED <<expSteps, experiments, schedule, now, result, notification_service>>

\* Step.complete, line 95: the guard
complete_guard(t) ==
    /\ threads[t].pc = "complete_guard"
    /\ threads' = [threads EXCEPT ![t] =
           IF can_complete(self_of(t)) THEN [@ EXCEPT !.pc = "complete_end"] ELSE at_pass]
    /\ UNCHANGED <<steps, expSteps, experiments, schedule, now, result, notification_service>>

\* Step.complete, line 99: self.actual_end_time = ...
complete_end(t) ==
    /\ threads[t].pc = "complete_end"
    /\ steps' = [steps EXCEPT ![threads[t].step_id].actual_end_time = threads[t].time]
    /\ threads' = [threads EXCEPT ![t].pc = "complete_check", ![t].time = None]
    /\ UNCHANGED <<expSteps, experiments, schedule, now, result, notification_service>>

\* Step.complete, line 100: if self.status == RUNNING
complete_check(t) ==
    /\ threads[t].pc = "complete_check"
    /\ threads' = [threads EXCEPT ![t].pc =
           IF self_of(t).status = RUNNING THEN "complete_read" ELSE "complete_status"]
    /\ UNCHANGED <<steps, expSteps, experiments, schedule, now, result, notification_service>>

\* Step.complete, line 102: the right-hand side of +=
complete_read(t) ==
    /\ threads[t].pc = "complete_read"
    /\ threads' = [threads EXCEPT
           ![t].pc = "complete_write",
           ![t].elapsed = self_of(t).elapsed_time
                              + (self_of(t).actual_end_time - self_of(t).actual_start_time)]
    /\ UNCHANGED <<steps, expSteps, experiments, schedule, now, result, notification_service>>

\* Step.complete, line 102: the assignment of +=
complete_write(t) ==
    /\ threads[t].pc = "complete_write"
    /\ steps' = [steps EXCEPT ![threads[t].step_id].elapsed_time = threads[t].elapsed]
    /\ threads' = [threads EXCEPT ![t].pc = "complete_status", ![t].elapsed = 0]
    /\ UNCHANGED <<expSteps, experiments, schedule, now, result, notification_service>>

\* Step.complete, line 104: self.status = COMPLETED; the handler goes on to
\* the pass
complete_status(t) ==
    /\ threads[t].pc = "complete_status"
    /\ steps' = [steps EXCEPT ![threads[t].step_id].status = COMPLETED]
    /\ threads' = [threads EXCEPT ![t] = at_pass]
    /\ UNCHANGED <<expSteps, experiments, schedule, now, result, notification_service>>

\* update_ready_status, lines 121-124: the next step of the registry and the
\* test of its status; the pass returns at the end of the registry
ready_step(t) ==
    /\ threads[t].pc = "ready_step"
    /\ threads' = [threads EXCEPT ![t] =
           IF threads[t].i > Len(schedule) THEN Idle
           ELSE IF steps[schedule[threads[t].i]].status = PENDING
                THEN [@ EXCEPT !.pc = "ready_dep",
                               !.deps = steps[schedule[threads[t].i]].dependencies,
                               !.earliest = None]
                ELSE [@ EXCEPT !.i = @ + 1]]
    /\ UNCHANGED <<steps, expSteps, experiments, schedule, now, result, notification_service>>

\* update_ready_status, lines 125-129: the next dependency and the test of
\* its status; line 135 when no dependency is left
ready_dep(t) ==
    /\ threads[t].pc = "ready_dep"
    /\ threads' = [threads EXCEPT ![t] =
           IF threads[t].deps = {} THEN [@ EXCEPT !.pc = "ready_flip"]
           ELSE LET dep_id == Min(threads[t].deps)
                IN  IF get_step(schedule, dep_id) /\ steps[dep_id].status = COMPLETED
                    THEN [@ EXCEPT !.pc = "ready_end"]
                    ELSE [@ EXCEPT !.pc = "ready_step", !.i = @ + 1,
                                   !.deps = {}, !.earliest = None]]
    /\ UNCHANGED <<steps, expSteps, experiments, schedule, now, result, notification_service>>

\* update_ready_status, lines 131-133: the actual_end_time of the dependency
ready_end(t) ==
    /\ threads[t].pc = "ready_end"
    /\ LET dep_id == Min(threads[t].deps)
           end == steps[dep_id].actual_end_time
       IN  threads' = [threads EXCEPT
               ![t].pc = "ready_dep",
               ![t].deps = @ \ {dep_id},
               ![t].earliest =
                   IF end # None /\ (@ = None \/ end > @) THEN end ELSE @]
    /\ UNCHANGED <<steps, expSteps, experiments, schedule, now, result, notification_service>>

\* update_ready_status, line 139: step.status = READY
ready_flip(t) ==
    /\ threads[t].pc = "ready_flip"
    /\ steps' = [steps EXCEPT ![schedule[threads[t].i]].status = READY]
    /\ threads' = [threads EXCEPT ![t].pc = "ready_earliest"]
    /\ UNCHANGED <<expSteps, experiments, schedule, now, result, notification_service>>

\* update_ready_status, line 140: step.earliest_possible_start_time = ...
ready_earliest(t) ==
    /\ threads[t].pc = "ready_earliest"
    /\ steps' = [steps EXCEPT ![schedule[threads[t].i]].earliest_possible_start_time =
                    Or(threads[t].earliest, @)]
    /\ threads' = [threads EXCEPT ![t].pc = "ready_step", ![t].i = @ + 1,
                                  ![t].earliest = None]
    /\ UNCHANGED <<expSteps, experiments, schedule, now, result, notification_service>>

\* --------------------------------------------------------- specifications
\* The life cycle of the steps of one registered experiment: steps that can
\* be paused and steps that cannot.
Next ==
    \/ Tick
    \/ \E ty \in {TASK, FIXED_DURATION}, deps \in SUBSET LifeIds :
           create_step(LifeIds, 1, ty, deps, 1, None, NoResource)
    \/ add_experiment(1)
    \/ calculate_initial_schedule(None)
    \/ update_ready_status_call
    \/ \E s \in LifeIds, t \in LifeTimeArgs : handle_step_start(s, t)
    \/ \E s \in LifeIds : handle_step_pause(s)
    \/ \E s \in LifeIds, t \in LifeTimeArgs : handle_step_complete(s, t)

Spec == Init /\ [][Next]_vars

\* The life cycle of one step, of every step type.
NextTypes ==
    \/ Tick
    \/ \E ty \in StepType : create_step({1}, 1, ty, {}, 1, None, NoResource)
    \/ add_experiment(1)
    \/ calculate_initial_schedule(None)
    \/ update_ready_status_call
    \/ \E s \in LifeIds, t \in LifeTimeArgs : handle_step_start(s, t)
    \/ \E s \in LifeIds : handle_step_pause(s)
    \/ \E s \in LifeIds, t \in LifeTimeArgs : handle_step_complete(s, t)

SpecTypes == Init /\ [][NextTypes]_vars

\* The scheduling of the steps of one experiment while they run.  The steps
\* are of a type that cannot be paused; the clock stands at its first reading
\* and the times of the calls are explicit arguments.
NextSched ==
    \/ \E deps \in SUBSET SchedIds, plan \in StepPlans :
           create_step(SchedIds, 1, FIXED_DURATION, deps, plan[1], plan[2], NoResource)
    \/ add_experiment(1)
    \/ \E t \in SchedTimeArgs : calculate_initial_schedule(t)
    \/ update_ready_status_call
    \/ \E s \in SchedIds : handle_step_start(s, None)
    \/ \E s \in SchedIds, t \in SchedTimeArgs : handle_step_complete(s, t)

SpecSched == Init /\ [][NextSched]_vars

\* The scheduling pass over chains of dependencies: up to four steps, each
\* with at most one dependency, registered in the order of their construction.
NextChain ==
    \/ \E deps \in {{}} \cup {{d} : d \in ChainIds} :
           create_step(ChainIds, 1, FIXED_DURATION, deps, 1, None, NoResource)
    \/ add_experiment(1)
    \/ calculate_initial_schedule(None)

SpecChain == Init /\ [][NextChain]_vars

\* Steps that hold resources while they run, and the detection of contention.
NextConflict ==
    \/ \E plan \in ResourcePlans :
           create_step(ConflictIds, 1, plan[1], {}, 1, None, plan[2])
    \/ add_experiment(1)
    \/ update_ready_status_call
    \/ \E s \in ConflictIds : handle_step_start(s, None)
    \/ \E s \in ConflictIds : handle_step_complete(s, None)
    \/ check_for_conflicts_call
    \/ check_resource_conflicts

SpecConflict == Init /\ [][NextConflict]_vars

\* The requests of a client about the steps of one experiment.
NextEvents ==
    \/ Tick
    \/ \E deps \in SUBSET LifeIds : create_step(LifeIds, 1, TASK, deps, 1, None, NoResource)
    \/ add_experiment(1)
    \/ calculate_initial_schedule(None)
    \/ \E s \in LifeIds : start_step(s)
    \/ \E s \in LifeIds : pause_step(s)
    \/ \E s \in LifeIds : complete_step(s)

SpecEvents == Init /\ [][NextEvents]_vars

\* The run of one experiment to its end, as run_test and the client drive it:
\* the steps are constructed, each depending on steps constructed before it,
\* the experiment is registered, the schedule is calculated, and the requests
\* of the user follow.
NextProgress ==
    \/ Tick
    \/ /\ experiments = <<>>
       /\ \E ty \in {TASK, FIXED_DURATION}, deps \in SUBSET (1..Len(steps)) :
              create_step(LifeIds, 1, ty, deps, 1, None, NoResource)
    \/ add_experiment(1)
    \/ calculate_initial_schedule(None)
    \/ \E s \in LifeIds : start_step(s)
    \/ \E s \in LifeIds : pause_step(s)
    \/ \E s \in LifeIds : complete_step(s)

\* the user starts the step that is Ready
starts(s) == s \in 1..Len(steps) /\ steps[s].status = READY /\ start_step(s)

\* the user resumes the step that is Paused
resumes(s) == s \in 1..Len(steps) /\ steps[s].status = PAUSED /\ start_step(s)

\* the user completes the step that is Running
completes(s) == s \in 1..Len(steps) /\ steps[s].status = RUNNING /\ complete_step(s)

\* The user goes on: a step that stays Ready is started, a step that stays
\* Paused is resumed, and a step that is Running again and again is completed.
SpecProgress ==
    /\ Init /\ [][NextProgress]_vars
    /\ \A s \in LifeIds :
           /\ WF_vars(starts(s))
           /\ WF_vars(resumes(s))
           /\ SF_vars(completes(s))

\* The registration of two experiments that may hold the same Step objects.
NextReg ==
    \/ \E e \in ExpIds : create_step(RegIds, e, FIXED_DURATION, {}, 1, None, NoResource)
    \/ \E e \in ExpIds, s \in RegIds : add_step(e, s)
    \/ \E e \in ExpIds : add_experiment(e)
    \/ \E e \in ExpIds, n \in {0, 1} : update_experiment(RegIds, e, n)
    \/ update_ready_status_call

SpecReg == Init /\ [][NextReg]_vars

\* The life cycle of Task steps whose status is also set by hand.  The clock
\* stands at its first reading.
NextStatus ==
    \/ \E deps \in SUBSET StatusIds : create_step(StatusIds, 1, TASK, deps, 1, None, NoResource)
    \/ add_experiment(1)
    \/ update_ready_status_call
    \/ \E s \in StatusIds : handle_step_start(s, None)
    \/ \E s \in StatusIds : handle_step_pause(s)
    \/ \E s \in StatusIds : handle_step_complete(s, None)
    \/ \E s \in StatusIds, status \in StepStatus : update_status(s, status)

SpecStatus == Init /\ [][NextStatus]_vars

\* The notifications that are constructed: errors of every priority, the
\* notifications of the factories, and informations for two, one and no user.
NotificationPlans ==
    {Notification(NotificationType_ERROR, priority, <<"alice">>, 1, None, NoResource, None) :
         priority \in NotificationPriority}
    \cup {step_ready_notification(1, 1),
          resource_conflict_notification(1, 2, 2, "microscope"),
          Notification(GENERAL_INFO, LOW, <<"alice", "bob">>, None, None, NoResource, None),
          Notification(GENERAL_INFO, CRITICAL, <<>>, None, None, NoResource, None)}

\* The notification service by itself: notifications are constructed,
\* created any number of times, listed, marked and deleted.
NextNotify ==
    \/ \E notification \in NotificationPlans : construct_notification(notification)
    \/ \E notification \in NotificationIds, emit_raises \in BOOLEAN :
           create_notification_call(notification, emit_raises)
    \/ \E username \in Users, unread_only \in BOOLEAN :
           get_user_notifications_call(username, unread_only)
    \/ \E notification_id \in NotificationIds : mark_as_read(notification_id)
    \/ \E notification_id \in NotificationIds : mark_as_dismissed(notification_id)
    \/ \E notification_id \in NotificationIds : delete_notification(notification_id)

SpecNotify == Init /\ [][NextNotify]_vars

\* Two request threads on the steps of one experiment, the second step
\* depending on the first; the requests are about the first step.  The
\* experiment is built and registered while no thread is in a handler.
NextThreads ==
    \/ Tick
    \/ /\ \A t \in Threads : threads[t].pc = "idle"
       /\ \/ create_step(ThreadIds, 1, TASK, {d \in {1} : Len(steps) >= 1}, 1, None, NoResource)
          \/ add_experiment(1)
    \/ \E t \in Threads :
           \/ call_handle_step_start(t, 1, None)
           \/ call_handle_step_pause(t, 1)
           \/ call_handle_step_complete(t, 1, None)
           \/ call_update_ready_status(t)
           \/ start_guard(t) \/ start_time(t) \/ start_status(t)
           \/ pause_guard(t) \/ pause_now(t) \/ pause_read(t)
           \/ pause_write(t) \/ pause_status(t)
           \/ complete_guard(t) \/ complete_end(t) \/ complete_check(t)
           \/ complete_read(t) \/ complete_write(t) \/ complete_status(t)
           \/ ready_step(t) \/ ready_dep(t) \/ ready_end(t)
           \/ ready_flip(t) \/ ready_earliest(t)

SpecThreads == Init /\ [][NextThreads]_vars

\* One transition at a time and the readiness passes that run into it: the
\* first thread serves the requests about the first step one after the other,
\* each accepted while no pass of the second thread is in flight, and the
\* second thread begins a pass at any time.
NextTorn ==
    \/ Tick
    \/ /\ \A t \in Threads : threads[t].pc = "idle"
       /\ \/ create_step(ThreadIds, 1, TASK, {d \in {1} : Len(steps) >= 1}, 1, None, NoResource)
          \/ add_experiment(1)
    \/ /\ threads[2].pc = "idle"
       /\ \/ call_handle_step_start(1, 1, None)
          \/ call_handle_step_pause(1, 1)
          \/ call_handle_step_complete(1, 1, None)
    \/ call_update_ready_status(2)
    \/ start_guard(1) \/ start_time(1) \/ start_status(1)
    \/ pause_guard(1) \/ pause_now(1) \/ pause_read(1)
    \/ pause_write(1) \/ pause_status(1)
    \/ complete_guard(1) \/ complete_end(1) \/ complete_check(1)
    \/ complete_read(1) \/ complete_write(1) \/ complete_status(1)
    \/ \E t \in Threads :
           \/ ready_step(t) \/ ready_dep(t) \/ ready_end(t)
           \/ ready_flip(t) \/ ready_earliest(t)

SpecTorn == Init /\ [][NextTorn]_vars

\* ----------------------------------------------------------------- claims
Constructed == 1..Len(steps)
Registered == Range(schedule)

\* every dependency of step s is a registered step that is Completed
DependenciesCompleted(s) ==
    \A d \in steps[s].dependencies : d \in Registered /\ steps[d].status = COMPLETED

\* the time stamps and the elapsed time of a step are those of another
SameTimes(a, b) ==
    /\ a.actual_start_time = b.actual_start_time
    /\ a.actual_end_time = b.actual_end_time
    /\ a.scheduled_start_time = b.scheduled_start_time
    /\ a.scheduled_end_time = b.scheduled_end_time
    /\ a.elapsed_time = b.elapsed_time

\* C1: in every reachable state, every step whose status is Ready, Running,
\* Paused or Completed has all of its dependencies registered and Completed.
C1_DependencySatisfaction ==
    \A s \in Constructed :
        steps[s].status \in {READY, RUNNING, PAUSED, COMPLETED} =>
            DependenciesCompleted(s)

\* a step with a dependency has run to completion
C1_Witness ==
    \E s \in Constructed :
        /\ steps[s].dependencies # {}
        /\ steps[s].status = COMPLETED

\* C2: a pass of update_ready_status changes the status of a step if and only
\* if the step is registered, is Pending and has every dependency registered
\* and Completed, and then the step becomes Ready; no other status changes.
C2_ReadinessIffCompleted ==
    [][update_ready_status_call =>
          \A s \in Constructed :
              /\ steps'[s].status # steps[s].status <=>
                     /\ s \in Registered
                     /\ steps[s].status = PENDING
                     /\ DependenciesCompleted(s)
              /\ steps'[s].status # steps[s].status => steps'[s].status = READY
      ]_vars

\* after a pass, a step with dependencies is Ready while another, Pending, has
\* a registered dependency that is scheduled to end but is not Completed
C2_Witness ==
    /\ result = OK
    /\ \E s \in Registered :
           steps[s].dependencies # {} /\ steps[s].status = READY
    /\ \E u \in Registered :
           /\ steps[u].status = PENDING
           /\ \E d \in steps[u].dependencies \cap Registered :
                  /\ steps[d].scheduled_end_time # None
                  /\ steps[d].status # COMPLETED

\* C3: handle_step_start(s, t) on a registered step that is Ready or Paused
\* makes it Running with actual_start_time t (the clock when t is None) and
\* leaves its elapsed time, actual end and scheduled times as they were; on a
\* step in any other status it starts nothing: the status stays (or goes from
\* Pending to Ready by the readiness propagation) and actual_start_time stays.
C3_StartAccepted ==
    [][\A s \in LifeIds, t \in LifeTimeArgs :
          (s \in Registered /\ handle_step_start(s, t)) =>
              IF steps[s].status \in {READY, PAUSED}
              THEN /\ steps'[s].status = RUNNING
                   /\ steps'[s].actual_start_time = (IF t # None THEN t ELSE now)
                   /\ steps'[s].elapsed_time = steps[s].elapsed_time
                   /\ steps'[s].actual_end_time = steps[s].actual_end_time
                   /\ steps'[s].scheduled_start_time = steps[s].scheduled_start_time
                   /\ steps'[s].scheduled_end_time = steps[s].scheduled_end_time
              ELSE /\ steps'[s].status \in {steps[s].status, READY}
                   /\ steps'[s].actual_start_time = steps[s].actual_start_time
      ]_vars

\* a scheduled step that was paused with time on its clock is Running again,
\* started at a time that is not the clock's
C3_Witness ==
    \E s \in Registered :
        /\ steps[s].status = RUNNING
        /\ steps[s].elapsed_time # 0
        /\ steps[s].scheduled_start_time # None
        /\ steps[s].actual_start_time # now

\* C4: handle_step_pause leaves the status of a FixedDuration, FixedStart or
\* AutomatedTask step as it is, in any status; it makes a Running Task step
\* Paused and leaves a Task step in any other status as it is.
C4_PauseOnlyRunningTask ==
    [][\A s \in LifeIds :
          (s \in Registered /\ handle_step_pause(s)) =>
              IF steps[s].step_type = TASK /\ steps[s].status = RUNNING
              THEN steps'[s].status = PAUSED
              ELSE steps'[s].status = steps[s].status
      ]_vars

\* a Task step has been paused while it ran
C4_Witness ==
    \E s \in Registered :
        /\ steps[s].step_type = TASK
        /\ steps[s].status = PAUSED
        /\ steps[s].elapsed_time # 0

\* C5: handle_step_complete(s, t) on a registered step that is Running or
\* Paused makes it Completed with actual_end_time t (the clock when t is None);
\* from Running the time since actual_start_time is added to elapsed_time, from
\* Paused elapsed_time stays; on a step in any other status it completes
\* nothing: the status stays (or goes from Pending to Ready by the readiness
\* propagation), and so do actual_end_time and elapsed_time.
C5_CompleteAccepted ==
    [][\A s \in LifeIds, t \in LifeTimeArgs :
          (s \in Registered /\ handle_step_complete(s, t)) =>
              LET end == IF t # None THEN t ELSE now IN
              IF steps[s].status \in {RUNNING, PAUSED}
              THEN /\ steps'[s].status = COMPLETED
                   /\ steps'[s].actual_end_time = end
                   /\ steps'[s].elapsed_time =
                          IF steps[s].status = RUNNING
                          THEN steps[s].elapsed_time + (end - steps[s].actual_start_time)
                          ELSE steps[s].elapsed_time
              ELSE /\ steps'[s].status \in {steps[s].status, READY}
                   /\ steps'[s].actual_end_time = steps[s].actual_end_time
                   /\ steps'[s].elapsed_time = steps[s].elapsed_time
      ]_vars

\* a step completed while Paused: its elapsed time is not the time from its
\* last start to its end
C5_Witness ==
    \E s \in Registered :
        /\ steps[s].status = COMPLETED
        /\ steps[s].elapsed_time # 0
        /\ steps[s].elapsed_time # steps[s].actual_end_time - steps[s].actual_start_time

\* the guards of the three transitions fail on a registered step
start_rejected(s) == s \in Registered /\ steps[s].status \notin {READY, PAUSED}
pause_rejected(s) ==
    s \in Registered /\ ~(steps[s].step_type = TASK /\ steps[s].status = RUNNING)
complete_rejected(s) == s \in Registered /\ steps[s].status \notin {RUNNING, PAUSED}

\* C6, as stated: a call of handle_step_start, handle_step_pause or
\* handle_step_complete on a registered step whose guard fails does not raise
\* and leaves the status, the time stamps and the elapsed time of every
\* registered step as they were.
C6_RejectedIsNoOp ==
    [][\A s \in LifeIds, t \in LifeTimeArgs :
          (\/ start_rejected(s) /\ handle_step_start(s, t)
           \/ pause_rejected(s) /\ handle_step_pause(s)
           \/ complete_rejected(s) /\ handle_step_complete(s, t)) =>
              /\ result' # RAISED
              /\ \A u \in Registered :
                     /\ steps'[u].status = steps[u].status
                     /\ SameTimes(steps'[u], steps[u])
      ]_vars

\* C6, amended: such a call does not raise and changes no time stamp and no
\* elapsed time; a rejected handle_step_pause changes no step at all; a rejected
\* handle_step_start or handle_step_complete still runs the readiness
\* propagation, so a registered step changes status exactly when it is Pending
\* with every dependency registered and Completed, and then it becomes Ready.
C6_RejectedOnlyPropagates ==
    [][\A s \in LifeIds, t \in LifeTimeArgs :
          /\ (pause_rejected(s) /\ handle_step_pause(s)) =>
                 result' = REJECTED /\ steps' = steps
          /\ (\/ start_rejected(s) /\ handle_step_start(s, t)
              \/ complete_rejected(s) /\ handle_step_complete(s, t)) =>
                 /\ result' = REJECTED
                 /\ \A u \in Constructed :
                        /\ SameTimes(steps'[u], steps[u])
                        /\ steps'[u].status =
                               IF /\ u \in Registered
                                  /\ steps[u].status = PENDING
                                  /\ DependenciesCompleted(u)
                               THEN READY ELSE steps[u].status
      ]_vars

\* a request has just been rejected while a step with a dependency is Ready
\* and has never been scheduled
C6_Witness ==
    /\ result = REJECTED
    /\ \E u \in Registered :
           /\ steps[u].dependencies # {}
           /\ steps[u].status = READY
           /\ steps[u].scheduled_start_time = None

\* C7: handle_step_start, handle_step_pause and handle_step_complete called
\* with a step id that is not registered report it as not found and change
\* neither the registry, nor the experiments, nor any field of any step.
C7_UnknownIdNoMutation ==
    [][\A s \in LifeIds, t \in LifeTimeArgs :
          (/\ s \notin Registered
           /\ \/ handle_step_start(s, t)
              \/ handle_step_pause(s)
              \/ handle_step_complete(s, t)) =>
              /\ result' = NOT_FOUND
              /\ steps' = steps
              /\ schedule' = schedule
              /\ experiments' = experiments
              /\ expSteps' = expSteps
      ]_vars

\* an unknown id has just been reported while a registered Pending step waits
\* with every dependency Completed
C7_Witness ==
    /\ result = NOT_FOUND
    /\ \E u \in Registered : steps[u].status = PENDING /\ DependenciesCompleted(u)

\* the end of a dependency that the scheduling pass reads, after the pass
EndAfter(d) == Or(steps'[d].actual_end_time, steps'[d].scheduled_end_time)

\* C8, as stated: after calculate_initial_schedule with base time T, every
\* registered step with no dependencies has scheduled_start_time T and
\* scheduled_end_time T + duration.
C8_NoDependencyAtBase ==
    [][\A T \in SchedTimeArgs :
          calculate_initial_schedule(T) =>
              \A s \in Registered :
                  steps[s].dependencies = {} =>
                      /\ steps'[s].scheduled_start_time = Or(T, now)
                      /\ steps'[s].scheduled_end_time = Or(T, now) + steps[s].duration
      ]_vars

\* C8, amended: calculate_initial_schedule with base time T places a registered
\* step with no dependencies only while it is Pending: at T when it has no
\* scheduled_start_time yet, at the scheduled_start_time it already has
\* otherwise, and in both cases with scheduled_end_time equal to
\* scheduled_start_time + duration; a step that is not Pending keeps its
\* scheduled times, set or not.
C8_PendingNoDependencyPlaced ==
    [][\A T \in SchedTimeArgs :
          calculate_initial_schedule(T) =>
              \A s \in Registered :
                  steps[s].dependencies = {} =>
                      IF steps[s].status = PENDING
                      THEN /\ steps'[s].scheduled_start_time =
                                  (IF steps[s].scheduled_start_time # None
                                   THEN steps[s].scheduled_start_time ELSE Or(T, now))
                           /\ steps'[s].scheduled_end_time =
                                  steps'[s].scheduled_start_time + steps[s].duration
                      ELSE /\ steps'[s].scheduled_start_time = steps[s].scheduled_start_time
                           /\ steps'[s].scheduled_end_time = steps[s].scheduled_end_time
      ]_vars

\* a pass has placed one step with no dependencies at a base time that is not
\* the clock's, and has left another at the start it was constructed with
C8_Witness ==
    /\ \E s \in Registered :
           /\ steps[s].dependencies = {}
           /\ steps[s].scheduled_start_time = 2
           /\ steps[s].scheduled_end_time = 2 + steps[s].duration
    /\ \E u \in Registered :
           /\ steps[u].dependencies = {}
           /\ steps[u].duration = MaxDuration
           /\ steps[u].scheduled_start_time = 0
           /\ steps[u].scheduled_end_time = MaxDuration
           /\ steps[u].earliest_possible_start_time = 2

\* C9: after calculate_initial_schedule, every registered step with
\* dependencies, all of them with a scheduled_end_time, has a
\* scheduled_start_time that is at least the largest scheduled_end_time of its
\* dependencies.
C9_StartAfterDependencies ==
    [][\A T \in SchedTimeArgs :
          calculate_initial_schedule(T) =>
              \A s \in Registered :
                  (/\ steps[s].dependencies # {}
                   /\ \A d \in steps[s].dependencies :
                          d \in Constructed /\ steps'[d].scheduled_end_time # None) =>
                      /\ steps'[s].scheduled_start_time # None
                      /\ \A d \in steps[s].dependencies :
                             steps'[s].scheduled_start_time >= steps'[d].scheduled_end_time
      ]_vars

\* C10: for a registered Pending step with dependencies, calculate_initial_schedule
\* sets scheduled_start_time to the larger of the floor (the latest, over its
\* dependencies, of actual_end_time if set, else scheduled_end_time) and the
\* scheduled_start_time it had, when every dependency is registered and has an
\* end; otherwise the step is not placed and stays Pending.
C10_StartIsMaxOfFloorAndPreset ==
    [][\A T \in SchedTimeArgs :
          calculate_initial_schedule(T) =>
              \A s \in Registered :
                  (steps[s].dependencies # {} /\ steps[s].status = PENDING) =>
                      IF \A d \in steps[s].dependencies :
                             d \in Registered /\ EndAfter(d) # None
                      THEN steps'[s].scheduled_start_time =
                               Max({EndAfter(d) : d \in steps[s].dependencies}
                                   \cup {steps[s].scheduled_start_time})
                      ELSE /\ steps'[s].status = PENDING
                           /\ steps'[s].scheduled_start_time = steps[s].scheduled_start_time
                           /\ steps'[s].scheduled_end_time = steps[s].scheduled_end_time
      ]_vars

\* C11: in every reachable state, every step whose scheduled_start_time is set
\* has scheduled_end_time = scheduled_start_time + duration.
C11_ScheduledEndFollowsStart ==
    \A s \in Constructed :
        steps[s].scheduled_start_time # None =>
            steps[s].scheduled_end_time = steps[s].scheduled_start_time + steps[s].duration

\* a step with dependencies has been placed by a pass behind a step that keeps
\* the start it was constructed with, and that one has run to its end
C11_Witness ==
    \E s \in Registered :
        /\ steps[s].dependencies # {}
        /\ steps[s].scheduled_start_time = MaxDuration
        /\ steps[s].earliest_possible_start_time # None
        /\ \E d \in steps[s].dependencies :
               /\ steps[d].scheduled_start_time = 0
               /\ steps[d].duration = MaxDuration
               /\ steps[d].status = COMPLETED

\* the steps that the steps of S depend on, through at most k further links
RECURSIVE Closure(_, _)
Closure(S, k) ==
    IF k = 0 THEN S
    ELSE Closure(S \cup UNION {steps[d].dependencies : d \in S \cap Constructed}, k - 1)

\* no step depends on itself, directly or through other steps
Acyclic == \A s \in Constructed : s \notin Closure(steps[s].dependencies, Len(steps))

\* C12: when every dependency of every registered Pending step is registered
\* and the dependency graph is acyclic, calculate_initial_schedule gives every
\* registered Pending step a scheduled_start_time and a scheduled_end_time, in
\* any registry order and for any depth of chain, and reports no unplaced step.
C12_AcyclicAllPlaced ==
    [][(/\ calculate_initial_schedule(None)
        /\ Acyclic
        /\ \A s \in Registered :
               steps[s].status = PENDING => steps[s].dependencies \subseteq Registered) =>
           /\ result' = OK
           /\ \A s \in Registered :
                  steps[s].status = PENDING =>
                      /\ steps'[s].scheduled_start_time # None
                      /\ steps'[s].scheduled_end_time # None
      ]_vars

\* C13: calculate_initial_schedule ends after at most 2 x (number of registered
\* steps) iterations of its worklist and never raises, also on cyclic graphs and
\* on dependencies that are not registered; when the iterations are exhausted
\* with steps left, the steps placed before and during the pass stay placed and
\* the readiness propagation has still run once: the only status changes are
\* Pending steps with every dependency Completed becoming Ready, and no such
\* step is left Pending.
C13_BoundedPass ==
    [][\A T \in SchedTimeArgs :
          calculate_initial_schedule(T) =>
              LET placed == schedule_pass(steps, schedule, Or(T, now)) IN
              /\ placed.iterations <= 2 * Len(schedule)
              /\ result' \in {OK, UNSCHEDULABLE}
              /\ (placed.steps_to_process # <<>>) =>
                     /\ placed.iterations = 2 * Len(schedule)
                     /\ result' = UNSCHEDULABLE
                     /\ \A s \in Constructed :
                            /\ steps[s].scheduled_start_time # None =>
                                   /\ steps'[s].scheduled_start_time = steps[s].scheduled_start_time
                                   /\ steps'[s].scheduled_end_time = steps[s].scheduled_end_time
                            /\ placed.st[s].scheduled_start_time # None =>
                                   /\ steps'[s].scheduled_start_time = placed.st[s].scheduled_start_time
                                   /\ steps'[s].scheduled_end_time = placed.st[s].scheduled_end_time
                            /\ steps'[s].status =
                                   IF /\ s \in Registered
                                      /\ steps[s].status = PENDING
                                      /\ DependenciesCompleted(s)
                                   THEN READY ELSE steps[s].status
      ]_vars

\* a pass has run out of iterations: a step with a dependency that is not
\* registered is unplaced, and another step is placed and Ready
C13_Witness ==
    /\ result = UNSCHEDULABLE
    /\ \E s \in Registered :
           /\ steps[s].status = READY
           /\ steps[s].scheduled_start_time # None
           /\ steps[s].earliest_possible_start_time # None
    /\ \E u \in Registered :
           /\ steps[u].scheduled_start_time = None
           /\ \E d \in steps[u].dependencies : d \notin Registered

\* after the call, step u is Ready if it was Pending and every dependency of
\* it is now registered and Completed
PropagatedTo(u) ==
    (/\ steps[u].status = PENDING
     /\ \A d \in steps[u].dependencies :
            d \in Registered /\ steps'[d].status = COMPLETED) =>
        steps'[u].status = READY

\* C14, as stated: after handle_step_start, handle_step_pause or
\* handle_step_complete on a registered step, every registered Pending step
\* with all of its dependencies Completed has become Ready.
C14_HandlersPropagate ==
    [][\A s \in LifeIds, t \in LifeTimeArgs :
          (/\ s \in Registered
           /\ \/ handle_step_start(s, t)
              \/ handle_step_pause(s)
              \/ handle_step_complete(s, t)) =>
              \A u \in Registered : PropagatedTo(u)
      ]_vars

\* C14, amended: handle_step_start and handle_step_complete on a registered
\* step run the readiness propagation, so that every registered Pending step
\* with all of its dependencies Completed has become Ready when they return;
\* handle_step_pause runs no propagation: every Pending step stays Pending.
C14_StartAndCompletePropagate ==
    [][\A s \in LifeIds, t \in LifeTimeArgs :
          /\ (/\ s \in Registered
              /\ handle_step_start(s, t) \/ handle_step_complete(s, t)) =>
                 \A u \in Registered : PropagatedTo(u)
          /\ (s \in Registered /\ handle_step_pause(s)) =>
                 \A u \in Constructed :
                     steps[u].status = PENDING => steps'[u].status = PENDING
      ]_vars

\* a step has become Ready on the completion of its dependency, without ever
\* being scheduled
C14_Witness ==
    /\ result = OK
    /\ \E u \in Registered :
           /\ steps[u].status = READY
           /\ steps[u].scheduled_start_time = None
           /\ steps[u].earliest_possible_start_time # None
           /\ \E d \in steps[u].dependencies :
                  steps[d].actual_end_time = steps[u].earliest_possible_start_time

\* two distinct Running steps have the same resource token, and it is not empty
Contending(a, b) ==
    /\ a # b
    /\ steps[a].status = RUNNING
    /\ steps[b].status = RUNNING
    /\ steps[a].resource_needed = steps[b].resource_needed
    /\ Truthy(steps[a].resource_needed)

\* C15: check_for_conflicts returns the pairs of distinct Running steps that
\* have the same non-empty resource_needed, and nothing only when there is no
\* such pair.
C15_ConflictsReturned ==
    check_for_conflicts =
        {p \in SUBSET Registered : \E a, b \in p : p = {a, b} /\ Contending(a, b)}

\* the notifications that the pass of this step has created for steps a and b
Reports(a, b) ==
    {i \in (Len(notifications) + 1)..Len(notifications') :
        /\ notifications'[i].type = RESOURCE_CONFLICT
        /\ {notifications'[i].step_id, notifications'[i].conflicting_step_id} = {a, b}
        /\ notifications'[i].resource = steps[a].resource_needed}

\* C16: one pass of check_resource_conflicts creates exactly one
\* ResourceConflict notification, naming both steps and the resource, for
\* every pair of distinct Running steps with the same non-empty resource token,
\* however many steps hold the token, and none for any other pair of steps.
C16_EveryPairOnce ==
    [][check_resource_conflicts =>
          /\ \A a, b \in Registered :
                 a # b => Cardinality(Reports(a, b)) = (IF Contending(a, b) THEN 1 ELSE 0)
          /\ \A i \in (Len(notifications) + 1)..Len(notifications') :
                 Contending(notifications'[i].step_id, notifications'[i].conflicting_step_id)
      ]_vars

\* C17: in every reachable state no two distinct Running steps have the same
\* non-empty resource token.
C17_ResourceExclusivity ==
    \A a, b \in Constructed : ~Contending(a, b)

\* C18: neither check_for_conflicts nor check_resource_conflicts changes any
\* field of any step; no step is paused or stopped by them.
C18_DetectionIsAdvisory ==
    [][(check_for_conflicts_call \/ check_resource_conflicts) =>
          /\ steps' = steps
          /\ schedule' = schedule
      ]_vars

\* a conflict has been reported, and both steps it names are still Running
C18_Witness ==
    \E i \in 1..Len(notifications) :
        /\ notifications[i].type = RESOURCE_CONFLICT
        /\ steps[notifications[i].step_id].status = RUNNING
        /\ steps[notifications[i].conflicting_step_id].status = RUNNING

\* C19: add_experiment of an experiment that is already registered changes
\* nothing; add_experiment of a new experiment keeps every entry of the
\* registry as and where it is, registers no step a second time, adds every
\* step of the experiment that was not registered, and changes no step.
\* Experiment.add_step of a step that the experiment holds changes nothing.
C19_RegistrationNeverOverwrites ==
    [][/\ \A e \in ExpIds :
              add_experiment(e) =>
                  IF e \in Range(experiments)
                  THEN /\ result' = CONFLICT
                       /\ UNCHANGED <<steps, expSteps, experiments, schedule, threads>>
                  ELSE /\ experiments' = Append(experiments, e)
                       /\ SubSeq(schedule', 1, Len(schedule)) = schedule
                       /\ Cardinality(Range(schedule')) = Len(schedule')
                       /\ Range(schedule') = Range(schedule) \cup Range(expSteps[e])
                       /\ result' = CONFLICT <=> Range(schedule) \cap Range(expSteps[e]) # {}
                       /\ UNCHANGED <<steps, expSteps>>
       /\ \A e \in ExpIds, s \in RegIds :
              (add_step(e, s) /\ s \in Range(expSteps[e])) =>
                  /\ result' = CONFLICT
                  /\ UNCHANGED <<steps, expSteps, experiments, schedule, threads>>
      ]_vars

\* a second experiment has been registered: a step it shares with the first
\* was registered before and has kept its place, a step of its own is new
C19_Witness ==
    /\ result = CONFLICT
    /\ Len(experiments) = 2
    /\ \E s, u \in Registered :
           /\ s \in Range(expSteps[experiments[1]]) \cap Range(expSteps[experiments[2]])
           /\ u \in Range(expSteps[experiments[2]]) \ Range(expSteps[experiments[1]])
           /\ schedule[1] = s
           /\ steps[s].status = READY
           /\ steps[u].status = PENDING

\* C20: a step goes from Pending to Ready only by the readiness propagation,
\* that is, only when it is registered and every dependency of it is registered
\* and Completed; no operation called on a step (start, pause, complete,
\* update_status) makes a Pending step Ready.
C20_ReadyOnlyByPropagation ==
    [][\A s \in Constructed :
          (steps[s].status = PENDING /\ steps'[s].status = READY) =>
              /\ s \in Registered
              /\ \A d \in steps[s].dependencies :
                     d \in Registered /\ steps'[d].status = COMPLETED
      ]_vars

\* C21: once the status of a step is Completed or Skipped, no operation (start,
\* pause, complete, update_status, update_ready_status,
\* calculate_initial_schedule) changes it.
C21_CompletedAndSkippedAreTerminal ==
    [][\A s \in Constructed :
          steps[s].status \in {COMPLETED, SKIPPED} =>
              steps'[s].status = steps[s].status
      ]_vars

\* the dependencies of s that are not in the registry
MissingDependencies(s) == {d \in steps[s].dependencies : ~get_step(schedule, d)}

\* C22: a step that has a dependency id that is not in the registry is Pending,
\* whatever scheduling passes, readiness propagations and start, pause and
\* complete events have happened.
C22_MissingDependencyStaysPending ==
    \A s \in Constructed :
        MissingDependencies(s) # {} => steps[s].status = PENDING

\* a registered step with a missing dependency is still Pending after an
\* event that was rejected
C22_Witness ==
    /\ result = REJECTED
    /\ \E s \in Registered :
           /\ MissingDependencies(s) # {}
           /\ steps[s].status = PENDING

\* the length of the interval that begins at a and ends at b
Length(a, b) == IF b > a THEN b - a ELSE 0

\* C23: elapsed is the sum of the lengths of the intervals during which the
\* step was Running: an accepted start or resume opens an interval and leaves
\* elapsed alone, an accepted pause adds the length of the interval from the
\* start to the clock, and a completion of a Running step adds the length of
\* the interval from the start to the end time, sets actual_end and makes the
\* step Completed.
C23_ElapsedIsSumOfRunningIntervals ==
    [][\A s \in Registered :
          /\ \A t \in LifeTimeArgs :
                 handle_step_start(s, t) /\ can_start(steps[s]) =>
                     steps'[s].elapsed_time = steps[s].elapsed_time
          /\ handle_step_pause(s) /\ can_pause(steps[s]) =>
                 steps'[s].elapsed_time = steps[s].elapsed_time
                     + Length(steps[s].actual_start_time, now)
          /\ \A t \in LifeTimeArgs :
                 handle_step_complete(s, t) /\ steps[s].status = RUNNING =>
                     /\ steps'[s].status = COMPLETED
                     /\ steps'[s].actual_end_time = Or(t, now)
                     /\ steps'[s].elapsed_time = steps[s].elapsed_time
                            + Length(steps[s].actual_start_time, Or(t, now))
      ]_vars

\* C24: no start, pause or complete makes elapsed smaller, and elapsed changes
\* only in a step that is Running when the operation begins.
C24_ElapsedNeverDecreases ==
    [][\A s \in Constructed :
          /\ steps'[s].elapsed_time >= steps[s].elapsed_time
          /\ steps[s].status # RUNNING =>
                 steps'[s].elapsed_time = steps[s].elapsed_time
      ]_vars

\* C25: in every state reached through registration, readiness propagation,
\* start, pause, complete and update_status, a Running step has actual_start
\* set and no operation has raised.
C25_RunningHasStartAndNothingRaises ==
    /\ result # RAISED
    /\ \A s \in Constructed :
           steps[s].status = RUNNING => steps[s].actual_start_time # None

\* C26: after every operation of the service, every stored notification of
\* type Error has priority High, whatever priority it was constructed with,
\* and a notification of another type has the priority it had before.
C26_ErrorIsHighOthersKeepPriority ==
    [][/\ \A nid \in Range(stored') :
              notifications'[nid].type = NotificationType_ERROR =>
                  notifications'[nid].priority = HIGH
       /\ \A nid \in 1..Len(notifications) :
              /\ notifications'[nid].type = notifications[nid].type
              /\ notifications[nid].type # NotificationType_ERROR =>
                     notifications'[nid].priority = notifications[nid].priority
      ]_vars

\* an Error notification is stored with priority High beside a notification
\* of another type that is stored with the Critical priority it was given
C26_Witness ==
    \E nid, other \in Range(stored) :
        /\ notifications[nid].type = NotificationType_ERROR
        /\ notifications[nid].priority = HIGH
        /\ notifications[other].type = GENERAL_INFO
        /\ notifications[other].priority = CRITICAL

\* C27: delete_notification(id) of a stored id returns true and leaves the
\* notification not stored, with its id in no user's index and in no list that
\* get_user_notifications returns; delete_notification of an id that is not
\* stored returns false and changes nothing.
C27_DeleteRemovesEverywhere ==
    [][\A notification_id \in NotificationIds :
          delete_notification(notification_id) =>
              IF notification_id \in Range(stored)
              THEN /\ result' = OK
                   /\ notification_id \notin Range(stored')
                   /\ \A username \in Users :
                          /\ notification_id \notin Range(user_notifications'[username])
                          /\ notification_id \notin
                                 Range(get_user_notifications(username, FALSE)')
              ELSE /\ result' = NOT_FOUND
                   /\ UNCHANGED notification_service
      ]_vars

\* C28: a notification is constructed with is_read and is_dismissed false; a
\* flag of a notification changes only in mark_as_read or mark_as_dismissed
\* called with the id of that notification, which is then stored; a mark
\* operation on an id that is not stored returns false and changes no flag.
C28_FlagsChangeOnlyByMark ==
    [][/\ \A nid \in (Len(notifications) + 1)..Len(notifications') :
              ~notifications'[nid].is_read /\ ~notifications'[nid].is_dismissed
       /\ \A nid \in 1..Len(notifications) :
              /\ notifications'[nid].is_read # notifications[nid].is_read =>
                     /\ mark_as_read(nid)
                     /\ nid \in Range(stored)
                     /\ notifications'[nid].is_read
              /\ notifications'[nid].is_dismissed # notifications[nid].is_dismissed =>
                     /\ mark_as_dismissed(nid)
                     /\ nid \in Range(stored)
                     /\ notifications'[nid].is_dismissed
       /\ \A notification_id \in NotificationIds :
              /\ notification_id \notin Range(stored)
              /\ mark_as_read(notification_id) \/ mark_as_dismissed(notification_id)
              => /\ result' = NOT_FOUND
                 /\ UNCHANGED notification_service
      ]_vars

\* a mark operation has just returned false while one stored notification is
\* read and not dismissed and another stored notification has neither flag
C28_Witness ==
    /\ result = NOT_FOUND
    /\ \E nid, other \in Range(stored) :
           /\ notifications[nid].is_read /\ ~notifications[nid].is_dismissed
           /\ ~notifications[other].is_read /\ ~notifications[other].is_dismissed

\* C29: when create_notification returns or raises, the notification is stored
\* and its id is in the index of every target user; a push that raises leaves
\* it stored and indexed for all of them.
C29_PersistencePrecedesPush ==
    [][\A notification \in NotificationIds, emit_raises \in BOOLEAN :
          create_notification_call(notification, emit_raises) =>
              /\ notification \in Range(stored')
              /\ \A i \in 1..Len(notifications[notification].target_users) :
                     notification \in Range(
                         user_notifications'[notifications[notification].target_users[i]])
      ]_vars

\* the push of a notification for two users has just raised, and the
\* notification is stored and in the index of both
C29_Witness ==
    /\ result = RAISED
    /\ \E notification \in Range(stored) :
           /\ Len(notifications[notification].target_users) = 2
           /\ \A username \in Users : notification \in Range(user_notifications[username])

\* C30: every stored StepReady notification carries exactly one start action
\* that names its step, and every stored ResourceConflict notification carries
\* exactly two pause actions, one that names each of the two contending steps,
\* however many times the notification has been created.
C30_FixedActionsPerType ==
    \A nid \in Range(stored) :
        /\ notifications[nid].type = STEP_READY =>
               notifications[nid].actions =
                   << NotificationAction("start_step", BUTTON, "Start Step",
                                         step_data(notifications[nid].step_id)) >>
        /\ notifications[nid].type = RESOURCE_CONFLICT =>
               notifications[nid].actions =
                   << NotificationAction("pause_step", BUTTON, "Pause Current Step",
                                         step_data(notifications[nid].step_id)),
                      NotificationAction("pause_conflicting_step", BUTTON,
                          "Pause Conflicting Step",
                          step_data(notifications[nid].conflicting_step_id)) >>

\* C31: for every notification n, Notification.from_dict(n.to_dict()) has the
\* id, the type, the priority, the recipient list and the action list of n,
\* the actions in the same order and each with the same id, type, label and
\* data.
C31_RoundTrip ==
    \A nid \in 1..Len(notifications) :
        LET n == notifications[nid]
            restored == from_dict(to_dict(n, nid))
        IN  /\ restored.id = nid
            /\ restored.notification.type = n.type
            /\ restored.notification.priority = n.priority
            /\ restored.notification.target_users = n.target_users
            /\ restored.notification.actions = n.actions

\* the wire form of a read notification that carries two or more actions
\* has been pushed to a user
C31_Witness ==
    \E i \in 1..Len(emitted) :
        /\ emitted[i].data.id \in 1..Len(notifications)
        /\ Len(emitted[i].data.actions) >= 2
        /\ emitted[i].data.is_read
        /\ emitted[i].data = to_dict(notifications[emitted[i].data.id], emitted[i].data.id)

\* the stored notifications that are addressed to the user
Addressed(username) ==
    {nid \in Range(stored) : username \in Range(notifications[nid].target_users)}

\* the ids of S once each, the most recently constructed first
RECURSIVE MostRecentFirst(_)
MostRecentFirst(S) ==
    IF S = {} THEN <<>> ELSE <<Max(S)>> \o MostRecentFirst(S \ {Max(S)})

\* C32: get_user_notifications(user) returns exactly the stored notifications
\* that are addressed to the user, the most recently constructed first, and
\* with unread_only exactly those of them that are not read.
C32_ListsStoredAddressedNewestFirst ==
    \A username \in Users :
        /\ get_user_notifications(username, FALSE) = MostRecentFirst(Addressed(username))
        /\ get_user_notifications(username, TRUE) =
               MostRecentFirst({nid \in Addressed(username) : ~notifications[nid].is_read})

C34_ActiveTimeAddedOnce ==
    \A s \in 1..Len(steps) : steps[s].elapsed_time <= now

LatestActualEnd(s) ==
    LET ends == {steps'[d].actual_end_time :
                    d \in steps[s].dependencies \cap Constructed} \ {None}
    IN  IF ends = {} THEN None ELSE Max(ends)

\* C36: when update_ready_status, run by itself or at the end of
\* handle_step_start or handle_step_complete, turns a Pending step Ready, the
\* earliest_possible_start of the step becomes the latest actual_end among
\* its dependencies, or stays as it was when no dependency has one, and the
\* scheduled_start and scheduled_end of every step stay as they were.
C36_ReadyFromActualEnds ==
    [][(\/ update_ready_status_call
        \/ \E s \in SchedIds : handle_step_start(s, None)
        \/ \E s \in SchedIds, t \in SchedTimeArgs : handle_step_complete(s, t)) =>
          \A s \in Constructed :
              /\ steps'[s].scheduled_start_time = steps[s].scheduled_start_time
              /\ steps'[s].scheduled_end_time = steps[s].scheduled_end_time
              /\ (steps[s].status = PENDING /\ steps'[s].status = READY) =>
                     steps'[s].earliest_possible_start_time =
                         Or(LatestActualEnd(s), steps[s].earliest_possible_start_time)
      ]_vars

\* a step is Ready with the earliest possible start of its dependency's
\* actual end, which is later than the scheduled end where its own scheduled
\* start still lies
C36_Witness ==
    \E s \in Registered :
        /\ steps[s].status = READY
        /\ steps[s].scheduled_start_time = 1
        /\ steps[s].earliest_possible_start_time = 2
        /\ \E d \in steps[s].dependencies :
               /\ steps[d].status = COMPLETED
               /\ steps[d].scheduled_end_time = 1
               /\ steps[d].actual_end_time = 2

\* the moves of a status along Pending -> Ready -> Running <-> Paused ->
\* Completed, a Running step completing as a Paused one does
Lifecycle ==
    {<<PENDING, READY>>, <<READY, RUNNING>>, <<RUNNING, PAUSED>>, <<PAUSED, RUNNING>>,
     <<RUNNING, COMPLETED>>, <<PAUSED, COMPLETED>>}

\* C37: under scheduling passes, readiness passes and start, pause and
\* complete events, every change of the status of a step is a move of the
\* life cycle: none back to Pending or Ready from a step that has run, none
\* from Pending or Ready to Paused or Completed.
C37_StatusFollowsLifecycle ==
    [][\A s \in Constructed :
          steps'[s].status # steps[s].status =>
              <<steps[s].status, steps'[s].status>> \in Lifecycle
      ]_vars

\* a step is Paused after its dependency has gone all the way to Completed
C37_Witness ==
    \E s \in Registered :
        /\ steps[s].status = PAUSED
        /\ \E d \in steps[s].dependencies : steps[d].status = COMPLETED

\* C38: every step that a registered experiment holds is in the registry
\* under its id, so that get_step finds it.
C38_RegistryHoldsEveryStep ==
    \A e \in Range(experiments) :
        \A s \in Range(expSteps[e]) : get_step(schedule, s)

\* a notification of the given type about step s, addressed to the owner of
\* every registered experiment that holds s, is stored by the transition
StoredAbout(notification_type, s) ==
    \E nid \in Range(stored') \ Range(stored) :
        /\ notifications'[nid].type = notification_type
        /\ notifications'[nid].step_id = s
        /\ \A e \in Range(experiments) :
               s \in Range(expSteps[e]) =>
                   owner(e) \in Range(notifications'[nid].target_users)

\* C39: a request that makes a step Completed stores a StepCompleted
\* notification about the step for the owner of its experiment, and a request
\* that makes a step Ready stores a StepReady notification about the step.
C39_EventsReachDispatcher ==
    [][(\E u \in LifeIds : start_step(u) \/ complete_step(u)) =>
          \A s \in Constructed :
              /\ (steps[s].status # COMPLETED /\ steps'[s].status = COMPLETED) =>
                     StoredAbout(STEP_COMPLETED, s)
              /\ (steps[s].status # READY /\ steps'[s].status = READY) =>
                     StoredAbout(STEP_READY, s)
      ]_vars

\* a pass has gone over the registry: no registered step is left Pending with
\* every dependency Completed
InitialPassDone ==
    \A s \in Registered : steps[s].status = PENDING => ~DependenciesCompleted(s)

\* C40: once the experiment is registered and a scheduling pass has gone
\* over it, every step of the experiment eventually is Completed, when Ready
\* steps are started, Paused steps resumed and Running steps completed.
C40_EveryStepCompletes ==
    (experiments # <<>> /\ InitialPassDone) ~>
        (\A s \in Range(expSteps[1]) : steps[s].status = COMPLETED)

\* two steps, the second depending on the first, are both Completed
C40_Witness ==
    /\ experiments # <<>>
    /\ Len(expSteps[1]) = 2
    /\ steps[2].dependencies = {1}
    /\ \A s \in Range(expSteps[1]) : steps[s].status = COMPLETED
====
